---- MODULE Spec2Model ----
(***************************************************************************)
(* File Structure Builder: the structure-import parser, the in-memory      *)
(* file tree of the Index page with the FileExplorer / CodeEditor          *)
(* handlers, the two flatteners and the publish drivers of ExportPanel.    *)
(*                                                                         *)
(* Strings are sequences of UTF-16 code units.  A code unit is written as  *)
(* a one-character TLA+ string, except "TAB", "NL" and the box-drawing     *)
(* glyphs "BOX_VR" (U+251C), "BOX_UR" (U+2514), "BOX_V" (U+2502),          *)
(* "BOX_H" (U+2500), and "FENCE" (three backquotes).  Fixed template text *)
(* inside generated file bodies and messages is kept as one element per    *)
(* literal fragment.                                                       *)
(* An optional JavaScript value is <<>> (undefined / null) or <<v>>.       *)
(***************************************************************************)
EXTENDS Integers, Sequences, FiniteSets, TLC

VARIABLES
  fileTree,         \* Index: the forest
  selectedFile,     \* Index: the node shown in the editor, or null
  now,              \* the value Date.now() returns
  structureText,    \* StructureImporter: the textarea value
  parsedStructure,  \* the parseStructure call of the last recorded import
  lastEvent,        \* the handler that ran last, where a property refers to it
  huggingfaceToken, \* Index: the Hugging Face token of the AuthPanel
  hfForm,           \* ExportPanel: the Space form
  isHFDialogOpen,   \* ExportPanel: the Space dialog is open
  isCreatingSpace,  \* ExportPanel: the in-progress flag of the Space publish
  hf,               \* the frame of the createHuggingFaceSpace call
  toast,            \* the toast on display (the last toast() call), or none
  githubToken,      \* Index: the GitHub token of the AuthPanel
  githubForm,       \* ExportPanel: the repository form
  isGitHubDialogOpen, \* ExportPanel: the repository dialog is open
  isCreatingRepo,   \* ExportPanel: the in-progress flag of the repository publish
  gh                \* the frame of the createGitHubRepo call

editorVars == <<fileTree, selectedFile, now, structureText, parsedStructure, lastEvent>>

hfVars == <<huggingfaceToken, hfForm, isHFDialogOpen, isCreatingSpace, hf>>

ghVars == <<githubToken, githubForm, isGitHubDialogOpen, isCreatingRepo, gh>>

exportVars == <<hfVars, ghVars, toast>>

vars == <<fileTree, selectedFile, now, structureText, parsedStructure, lastEvent,
          huggingfaceToken, hfForm, isHFDialogOpen, isCreatingSpace, hf, toast,
          githubToken, githubForm, isGitHubDialogOpen, isCreatingRepo, gh>>

Undefined == <<>>

Some(v) == <<v>>

(***************************************************************************)
(* String primitives                                                       *)
(***************************************************************************)
IsSpace(c) == c \in {" ", "TAB", "NL"}

IsGlyph(c) == c \in {"BOX_VR", "BOX_UR", "BOX_V", "BOX_H"}

RECURSIVE TrimStart(_)
TrimStart(s) ==
  IF s # <<>> /\ IsSpace(Head(s)) THEN TrimStart(Tail(s)) ELSE s

RECURSIVE TrimEnd(_)
TrimEnd(s) ==
  IF s # <<>> /\ IsSpace(s[Len(s)]) THEN TrimEnd(SubSeq(s, 1, Len(s) - 1)) ELSE s

Trim(s) == TrimEnd(TrimStart(s))

Includes(s, c) == \E i \in 1..Len(s) : s[i] = c

StartsWith(s, p) == Len(s) >= Len(p) /\ SubSeq(s, 1, Len(p)) = p

EndsWith(s, p) == Len(s) >= Len(p) /\ SubSeq(s, Len(s) - Len(p) + 1, Len(s)) = p

IndexOf(s, p) ==
  LET hits == {i \in 1..(Len(s) - Len(p) + 1) : SubSeq(s, i, i + Len(p) - 1) = p}
  IN  IF hits = {} THEN 0 ELSE CHOOSE i \in hits : \A j \in hits : i <= j

LastIndexOf(s, p) ==
  LET hits == {i \in 1..(Len(s) - Len(p) + 1) : SubSeq(s, i, i + Len(p) - 1) = p}
  IN  IF hits = {} THEN 0 ELSE CHOOSE i \in hits : \A j \in hits : i >= j

\* String.prototype.replace with a string pattern: the first occurrence only
ReplaceFirst(s, p, r) ==
  LET i == IndexOf(s, p)
  IN  IF i = 0 THEN s
      ELSE SubSeq(s, 1, i - 1) \o r \o SubSeq(s, i + Len(p), Len(s))

RECURSIVE Split(_, _)
Split(s, sep) ==
  LET i == IndexOf(s, <<sep>>)
  IN  IF i = 0 THEN <<s>>
      ELSE <<SubSeq(s, 1, i - 1)>> \o Split(SubSeq(s, i + 1, Len(s)), sep)

\* replace(/[glyphs]/g, '')
StripGlyphs(s) == SelectSeq(s, LAMBDA c : ~IsGlyph(c))

\* replace(/\s+/g, ' ')
RECURSIVE CollapseSpaces(_)
CollapseSpaces(s) ==
  IF s = <<>> THEN <<>>
  ELSE IF IsSpace(Head(s)) THEN <<" ">> \o CollapseSpaces(TrimStart(s))
  ELSE <<Head(s)>> \o CollapseSpaces(Tail(s))

\* name.includes('.') ? name.split('.').pop() : ''
FileExtension(name) ==
  IF Includes(name, ".") THEN SubSeq(name, LastIndexOf(name, <<".">>) + 1, Len(name))
  ELSE <<>>

(***************************************************************************)
(* StructureImporter.parseStructure                                        *)
(*                                                                         *)
(* The nodes built by the loop are JavaScript objects reached through      *)
(* references (the stack and the children arrays alias them), so the loop  *)
(* state is a heap: heap[r] is the object with reference r, children holds *)
(* references, and ToForest reads the finished object graph as a value.    *)
(* depth is line-length difference divided by 4 in floating point; it is   *)
(* kept as its numerator (depth4 = 4 * depth), which orders the same way.  *)
(***************************************************************************)
DefaultContent(name) ==
  LET fileExtension == FileExtension(name)
  IN  IF fileExtension = <<"p", "y">>
        THEN <<"# ">> \o name \o <<"\n# TODO: Implement functionality">>
      ELSE IF fileExtension = <<"t", "x", "t">>
        THEN <<"# Requirements for ">> \o ReplaceFirst(name, <<".", "t", "x", "t">>, <<>>)
               \o <<"\n# Add your dependencies here">>
      ELSE IF fileExtension = <<"m", "d">>
        THEN <<"# ">> \o ReplaceFirst(name, <<".", "m", "d">>, <<>>)
               \o <<"\n\nProject description goes here.">>
      ELSE IF fileExtension = <<"j", "s", "o", "n">>
        THEN <<"{\n  \"// TODO\": \"Add configuration\"\n}">>
      ELSE IF name = <<"D", "o", "c", "k", "e", "r", "f", "i", "l", "e">>
        THEN <<"FROM python:3.9\n\n# TODO: Add Dockerfile instructions">>
      ELSE <<"# ">> \o name \o <<"\n# TODO: Add content">>

\* faulty variant: the indentation test of the root-label check inverted
IsRootLabelInverted(line) ==
  /\ Includes(line, "/")
  /\ StartsWith(line, <<" ">>)

\* the root-label test of the loop head
IsRootLabel(line) ==
  /\ Includes(line, "/")
  /\ ~StartsWith(line, <<" ">>)
  /\ ~StartsWith(line, <<"BOX_VR">>)
  /\ ~StartsWith(line, <<"BOX_UR">>)

CleanLine(line) == CollapseSpaces(StripGlyphs(line))

Depth4(line) == Len(line) - Len(Trim(CleanLine(line)))

NodeName(line) ==
  LET name == Trim(CleanLine(line))
  IN  IF EndsWith(name, <<"/">>) THEN SubSeq(name, 1, Len(name) - 1) ELSE name

IsFolderLine(line) == Includes(line, "/") \/ EndsWith(NodeName(line), <<"/">>)

\* Date.now().toString() + Math.random().toString(36).substr(2, 9):
\* the decimal clock value followed by the random suffix (0 is the empty
\* suffix that Math.random() = 0 produces)
MakeId(t, r) == <<t, r>>

NewNode(line, t, r) ==
  [id       |-> MakeId(t, r),
   name     |-> NodeName(line),
   type     |-> IF IsFolderLine(line) THEN "folder" ELSE "file",
   content  |-> IF IsFolderLine(line) THEN Undefined ELSE Some(DefaultContent(NodeName(line))),
   children |-> IF IsFolderLine(line) THEN Some(<<>>) ELSE Undefined,
   parent   |-> Undefined]

\* a heap cell: the node object and the index of the line that created it
HeapObject(node, k) ==
  [id |-> node.id, name |-> node.name, type |-> node.type, content |-> node.content,
   children |-> node.children, parent |-> node.parent, line |-> k]

\* faulty variant: only strictly deeper frames are closed
RECURSIVE PopStackStrict(_, _)
PopStackStrict(stack, depth4) ==
  IF Len(stack) > 0 /\ stack[Len(stack)].depth4 > depth4
    THEN PopStackStrict(SubSeq(stack, 1, Len(stack) - 1), depth4)
    ELSE stack

\* the while loop that closes the frames at the same or a deeper level
RECURSIVE PopStack(_, _)
PopStack(stack, depth4) ==
  IF Len(stack) > 0 /\ stack[Len(stack)].depth4 >= depth4
    THEN PopStack(SubSeq(stack, 1, Len(stack) - 1), depth4)
    ELSE stack

\* faulty variant: a node pushed into the children of its parent is pushed
\* into result as well
ParseLineTwice(st, line, k, t, r) ==
  IF IsRootLabel(line) \/ NodeName(line) = <<>> THEN st
  ELSE
    LET ref     == Len(st.heap) + 1
        newNode == HeapObject(NewNode(line, t, r), k)
        stack   == PopStack(st.stack, Depth4(line))
        parent  == stack[Len(stack)].node
        heap1   == Append(st.heap, newNode)
        heap2   ==
          IF Len(stack) = 0 THEN heap1
          ELSE IF st.heap[parent].children # Undefined
            THEN [heap1 EXCEPT ![parent].children = Some(Append(@[1], ref)),
                               ![ref].parent = Some(st.heap[parent].id)]
            ELSE heap1
    IN  [heap   |-> heap2,
         result |-> Append(st.result, ref),
         stack  |-> IF IsFolderLine(line)
                      THEN Append(stack, [node |-> ref, depth4 |-> Depth4(line)])
                      ELSE stack]

\* one iteration of the for loop; k is the index of the line in lines
ParseLine(st, line, k, t, r) ==
  IF IsRootLabel(line) \/ NodeName(line) = <<>> THEN st
  ELSE
    LET ref     == Len(st.heap) + 1
        newNode == HeapObject(NewNode(line, t, r), k)
        stack   == PopStack(st.stack, Depth4(line))
        parent  == stack[Len(stack)].node
        heap1   == Append(st.heap, newNode)
        heap2   ==
          IF Len(stack) = 0 THEN heap1
          ELSE IF st.heap[parent].children # Undefined
            THEN [heap1 EXCEPT ![parent].children = Some(Append(@[1], ref)),
                               ![ref].parent = Some(st.heap[parent].id)]
            ELSE heap1
    IN  [heap   |-> heap2,
         result |-> IF Len(stack) = 0 THEN Append(st.result, ref) ELSE st.result,
         stack  |-> IF IsFolderLine(line)
                      THEN Append(stack, [node |-> ref, depth4 |-> Depth4(line)])
                      ELSE stack]

RECURSIVE ParseLoop(_, _, _, _, _)
ParseLoop(st, lines, k, t, rnd) ==
  IF k > Len(lines) THEN st
  ELSE ParseLoop(ParseLine(st, lines[k], k, t, rnd[k]), lines, k + 1, t, rnd)

NonBlankLines(text) == SelectSeq(Split(text, "NL"), LAMBDA line : Trim(line) # <<>>)

ParseHeap(text, t, rnd) ==
  ParseLoop([heap |-> <<>>, result |-> <<>>, stack |-> <<>>],
            NonBlankLines(text), 1, t, rnd)

RECURSIVE ToForest(_, _)
ToForest(heap, refs) ==
  [i \in 1..Len(refs) |->
     LET n == heap[refs[i]]
     IN  [id |-> n.id, name |-> n.name, type |-> n.type, content |-> n.content,
          children |-> IF n.children = Undefined THEN Undefined
                       ELSE Some(ToForest(heap, n.children[1])),
          parent |-> n.parent]]

parseStructure(text, t, rnd) ==
  LET st == ParseHeap(text, t, rnd) IN ToForest(st.heap, st.result)

(***************************************************************************)
(* Index page state and the FileExplorer / CodeEditor handlers             *)
(***************************************************************************)
InitialTree ==
  << [id |-> <<1, 0>>, name |-> <<"s", "r", "c">>, type |-> "folder",
      content |-> Undefined,
      children |-> Some(<< [id |-> <<2, 0>>,
                            name |-> <<"m", "a", "i", "n", ".", "p", "y">>,
                            type |-> "file",
                            content |-> Some(<<"# Welcome to your new project!\nprint(\"Hello, World!\")">>),
                            children |-> Undefined,
                            parent |-> Some(<<1, 0>>)] >>),
      parent |-> Undefined],
     [id |-> <<3, 0>>, name |-> <<"R", "E", "A", "D", "M", "E", ".", "m", "d">>,
      type |-> "file",
      content |-> Some(<<"# ", "my-project", "\n\nA new project created with File Structure Builder.">>),
      children |-> Undefined,
      parent |-> Undefined] >>

\* Date.now().toString()
generateId(t) == MakeId(t, 0)

NewItem(t, newItemName, newItemType) ==
  [id       |-> generateId(t),
   name     |-> newItemName,
   type     |-> newItemType,
   content  |-> IF newItemType = "file" THEN Some(<<>>) ELSE Undefined,
   children |-> IF newItemType = "folder" THEN Some(<<>>) ELSE Undefined,
   parent   |-> Undefined]

\* faulty variant: only the top level is filtered
filterNodesShallow(nodes, itemId) == SelectSeq(nodes, LAMBDA node : node.id # itemId)

RECURSIVE filterNodes(_, _)
filterNodes(nodes, itemId) ==
  LET kept == SelectSeq(nodes, LAMBDA node : node.id # itemId)
  IN  [i \in 1..Len(kept) |->
         [kept[i] EXCEPT !.children =
            IF kept[i].children # Undefined
              THEN Some(filterNodes(kept[i].children[1], itemId))
              ELSE Undefined]]

RECURSIVE updateNode(_, _, _)
updateNode(nodes, fileId, content) ==
  [i \in 1..Len(nodes) |->
     IF nodes[i].id = fileId THEN [nodes[i] EXCEPT !.content = Some(content)]
     ELSE IF nodes[i].children # Undefined
       THEN [nodes[i] EXCEPT !.children = Some(updateNode(nodes[i].children[1], fileId, content))]
     ELSE nodes[i]]

\* every node of a forest, in depth-first pre-order
RECURSIVE AllNodes(_)
AllNodes(nodes) ==
  IF nodes = <<>> THEN <<>>
  ELSE <<Head(nodes)>>
       \o (IF Head(nodes).children # Undefined THEN AllNodes(Head(nodes).children[1]) ELSE <<>>)
       \o AllNodes(Tail(nodes))

NodeCount(nodes) == Len(AllNodes(nodes))

(***************************************************************************)
(* ExportPanel: the two flatteners                                         *)
(*                                                                         *)
(* The repository flattener returns a JavaScript object keyed by path; it  *)
(* is kept as the sequence of its entries in key insertion order, and an   *)
(* assignment to a key that is already present replaces the value in       *)
(* place.                                                                  *)
(***************************************************************************)
GitKeep == <<".", "g", "i", "t", "k", "e", "e", "p">>

\* basePath ? `${basePath}/${name}` : name
FullPath(basePath, name) ==
  IF basePath # <<>> THEN basePath \o <<"/">> \o name ELSE name

\* faulty variant: the content is passed through without the || fallback
ContentVerbatim(file) == IF file.content # Undefined THEN file.content[1] ELSE <<>>

\* file.content || `// ${file.name}\n// Auto-generated file`
ContentOrPlaceholder(file) ==
  IF file.content # Undefined /\ file.content[1] # <<>>
    THEN file.content[1]
    ELSE <<"// ">> \o file.name \o <<"\n// Auto-generated file">>

\* result[key] = value
ObjectSet(obj, key, value) ==
  IF \E i \in 1..Len(obj) : obj[i].path = key
    THEN [i \in 1..Len(obj) |->
            IF obj[i].path = key THEN [path |-> key, content |-> value] ELSE obj[i]]
    ELSE Append(obj, [path |-> key, content |-> value])

\* Object.assign(result, source)
RECURSIVE ObjectAssign(_, _)
ObjectAssign(obj, source) ==
  IF source = <<>> THEN obj
  ELSE ObjectAssign(ObjectSet(obj, Head(source).path, Head(source).content), Tail(source))

RECURSIVE convertFileTreeToGitHubFiles(_, _)
RECURSIVE GitHubForEach(_, _, _)
\* the forEach callback applied to files in order, accumulating into result
GitHubForEach(result, files, basePath) ==
  IF files = <<>> THEN result
  ELSE
    LET file     == Head(files)
        fullPath == FullPath(basePath, file.name)
        next ==
          IF file.type = "file"
            THEN ObjectSet(result, fullPath, ContentOrPlaceholder(file))
          ELSE IF file.type = "folder" /\ file.children # Undefined
            THEN LET merged == ObjectAssign(result,
                                 convertFileTreeToGitHubFiles(file.children[1], fullPath))
                 IN  IF Len(file.children[1]) = 0
                       THEN ObjectSet(merged, fullPath \o <<"/">> \o GitKeep, <<>>)
                       ELSE merged
          ELSE result
    IN  GitHubForEach(next, Tail(files), basePath)

convertFileTreeToGitHubFiles(files, basePath) == GitHubForEach(<<>>, files, basePath)

\* faulty variant: an empty folder contributes nothing
RECURSIVE getFilesForHFUploadNoSentinel(_, _)
getFilesForHFUploadNoSentinel(nodes, basePath) ==
  IF nodes = <<>> THEN <<>>
  ELSE
    LET node     == Head(nodes)
        fullPath == FullPath(basePath, node.name)
        pushed ==
          IF node.type = "file"
            THEN << [path |-> fullPath, content |-> ContentOrPlaceholder(node)] >>
          ELSE IF node.type = "folder" /\ node.children # Undefined
            THEN getFilesForHFUploadNoSentinel(node.children[1], fullPath)
          ELSE <<>>
    IN  pushed \o getFilesForHFUploadNoSentinel(Tail(nodes), basePath)

RECURSIVE getFilesForHFUpload(_, _)
getFilesForHFUpload(nodes, basePath) ==
  IF nodes = <<>> THEN <<>>
  ELSE
    LET node     == Head(nodes)
        fullPath == FullPath(basePath, node.name)
        pushed ==
          IF node.type = "file"
            THEN << [path |-> fullPath, content |-> ContentOrPlaceholder(node)] >>
          ELSE IF node.type = "folder"
            THEN IF node.children # Undefined /\ Len(node.children[1]) > 0
                   THEN getFilesForHFUpload(node.children[1], fullPath)
                   ELSE << [path |-> fullPath \o <<"/">> \o GitKeep, content |-> <<>>] >>
          ELSE <<>>
    IN  pushed \o getFilesForHFUpload(Tail(nodes), basePath)

(***************************************************************************)
(* ExportPanel: publishing to a Hugging Face Space                         *)
(*                                                                         *)
(* Delays are milliseconds in floating point (2000, 2500, 3125, 3906.25,   *)
(* 4882.8125, 5000, ...); they are kept in sixteenths of a millisecond,    *)
(* in which every value the loop computes below the cap is an integer.     *)
(***************************************************************************)
tries == 10

BaseDelayMs == 2000

MaxDelayMs == 5000

Ms(n) == n * 16

Min(a, b) == IF a <= b THEN a ELSE b

\* faulty variant: the backoff without its cap
NextDelayUncapped(delay) == (delay * 5) \div 4

\* Math.min(delay * 1.25, 5000)
NextDelay(delay) == Min((delay * 5) \div 4, Ms(MaxDelayMs))

\* faulty variant: a 404 counts as success
OkBelow500(status) == status >= 200 /\ status <= 499

\* res.ok
Ok(status) == status >= 200 /\ status <= 299

\* faulty variant: every failed attempt is retried
ShouldRetryAny(status, t) == t < tries - 1

\* res.status === 404 && t < tries - 1
ShouldRetry(status, t) == status = 404 /\ t < tries - 1

\* the decimal text of a status code in a template literal
StatusText(status) == ToString(status)

AppPy == <<"a", "p", "p", ".", "p", "y">>

ReadmeMd == <<"R", "E", "A", "D", "M", "E", ".", "m", "d">>

ensureAppPy(hfFiles, sdk) ==
  IF sdk # "gradio" /\ sdk # "streamlit" THEN hfFiles
  ELSE IF ~\E i \in 1..Len(hfFiles) :
             hfFiles[i].path = AppPy \/ StartsWith(hfFiles[i].path, <<"a", "p", "p", ".">>)
    THEN Append(hfFiles, [path |-> AppPy,
                          content |-> <<"# This file is required for running your Space\n">>])
  ELSE hfFiles

\* the text of an id: the decimal clock value, then the random suffix
IdText(id) ==
  IF id[2] = 0 THEN <<ToString(id[1])>> ELSE <<ToString(id[1]), "r", ToString(id[2])>>

\* JSON.stringify(fileTree, null, 2); keys in insertion order, undefined
\* members omitted, the indentation left out
RECURSIVE JsonStringify(_)
RECURSIVE JsonMembers(_, _)
JsonMembers(nodes, i) ==
  IF i > Len(nodes) THEN <<>>
  ELSE
    LET n == nodes[i]
    IN  (IF i > 1 THEN <<",">> ELSE <<>>)
        \o <<"{", "\"id\":", "\"">> \o IdText(n.id) \o <<"\"">>
        \o <<",", "\"name\":", "\"">> \o n.name \o <<"\"">>
        \o <<",", "\"type\":", "\"", n.type, "\"">>
        \o (IF n.content # Undefined
              THEN <<",", "\"content\":", "\"">> \o n.content[1] \o <<"\"">> ELSE <<>>)
        \o (IF n.children # Undefined
              THEN <<",", "\"children\":">> \o JsonStringify(n.children[1]) ELSE <<>>)
        \o (IF n.parent # Undefined
              THEN <<",", "\"parent\":", "\"">> \o IdText(n.parent[1]) \o <<"\"">> ELSE <<>>)
        \o <<"}">>
        \o JsonMembers(nodes, i + 1)

JsonStringify(nodes) == <<"[">> \o JsonMembers(nodes, 1) \o <<"]">>

readmeContent(form, tree) ==
  <<"---\ntitle: ">> \o form.spaceName
  \o <<"\nemoji: (rocket)\ncolorFrom: blue\ncolorTo: red\nsdk: ", form.sdk,
       "\nsdk_version: \"4.44.0\"\napp_file: app.py\npinned: false\nlicense: ">>
  \o form.license \o <<"\n---\n\n# ">> \o form.spaceName \o <<"\n\n">> \o form.description
  \o <<"\n\nThis space was created using File Structure Builder.\n\n## Project Structure\n\n", "FENCE", "\n">>
  \o JsonStringify(tree) \o <<"\n", "FENCE", "\n">>

\* the upload list of createHuggingFaceSpace
HFFiles(form, tree) ==
  ensureAppPy(<< [path |-> ReadmeMd, content |-> readmeContent(form, tree)] >>
                \o getFilesForHFUpload(tree, <<>>),
              form.sdk)

\* a response body as Response.json() sees it: not JSON (json() throws),
\* the JSON value null, or a JSON object with or without an error member
Body(kind, error) == [kind |-> kind, error |-> error]

\* faulty variant: the remote error member is ignored
UploadErrorMessageTemplate(file, lastErr) ==
  <<"Failed to upload: ">> \o file.path \o <<". Status ", StatusText(lastErr.status), ". ",
    "If this is your FIRST upload to a new Space, it can take up to a minute for provisioning. ",
    "If this keeps failing, wait and try again.">>

\* the message of the Error thrown at the end of uploadWithRetry
UploadErrorMessage(file, lastErr) ==
  LET errObj == IF lastErr.body.kind = "object" THEN lastErr.body ELSE Body("object", Undefined)
  IN  IF errObj.error # Undefined /\ errObj.error[1] # <<>>
        THEN errObj.error[1]
        ELSE <<"Failed to upload: ">> \o file.path
               \o <<". Status ", StatusText(lastErr.status), ". ",
                    "If this is your FIRST upload to a new Space, it can take up to a minute for provisioning. ",
                    "If this keeps failing, wait and try again.">>

\* the message of the Error thrown when the create call is not ok
CreateErrorMessage(body) ==
  IF body.kind = "invalid" THEN <<"SyntaxError: Unexpected token in JSON">>
  ELSE IF body.kind = "null" THEN <<"TypeError: Cannot read properties of null">>
  ELSE IF body.error # Undefined /\ body.error[1] # <<>> THEN body.error[1]
  ELSE <<"Failed to create space">>

Toast(title, description) == Some([title |-> title, description |-> description])

FailureToast(message) == Toast("Space Creation Failed", message)

\* the frame of a createHuggingFaceSpace call; attempts and sleeps count
\* the fetches and the delays of the current uploadWithRetry call, error is
\* the message of the Error caught (the reason, for a rejected call), calls
\* the kinds of request sent, created whether the create call was answered
\* 2xx, outstanding the number of requests sent and not yet settled, and
\* uploaded the paths whose PUT was answered with a 2xx status
HFIdle ==
  [pc |-> "idle", fileTree |-> <<>>, token |-> <<>>, form |-> <<>>, hfFiles |-> <<>>,
   i |-> 0, t |-> 0, delay |-> 0, res |-> Undefined, lastErr |-> Undefined,
   attempts |-> 0, sleeps |-> <<>>, error |-> Undefined,
   calls |-> {}, created |-> FALSE, outstanding |-> 0, uploaded |-> <<>>]

InitialHFForm ==
  [spaceName   |-> <<"m", "y", "-", "p", "r", "o", "j", "e", "c", "t">>,
   description |-> <<"Project created with File Structure Builder">>,
   sdk         |-> "gradio",
   license     |-> <<"m", "i", "t">>]

(***************************************************************************)
(* ExportPanel: publishing to a GitHub repository                          *)
(***************************************************************************)
\* code units above U+00FF that occur in the contents of the model
NonLatin1 == {"BOX_VR", "BOX_UR", "BOX_V", "BOX_H", "CHECK"}

\* btoa(str) throws InvalidCharacterError when str holds a code unit above
\* U+00FF
BtoaThrows(str) == \E k \in 1..Len(str) : str[k] \in NonLatin1

\* !spaceResponse.ok
SpaceCreateFails(status) == ~Ok(status)

\* faulty variant: a failed response to the create call is not thrown
RepoCreateFailsNever(status) == FALSE

\* !repoResponse.ok
RepoCreateFails(status) == ~Ok(status)

\* the message of the Error thrown when the create call is not ok:
\* errorData.message || 'Failed to create repository', the member of the
\* body being its message
RepoErrorMessage(body) ==
  IF body.kind = "invalid" THEN <<"SyntaxError: Unexpected token in JSON">>
  ELSE IF body.kind = "null" THEN <<"TypeError: Cannot read properties of null">>
  ELSE IF body.error # Undefined /\ body.error[1] # <<>> THEN body.error[1]
  ELSE <<"Failed to create repository">>

GitHubFailureToast(message) == Toast("GitHub Creation Failed", message)

GitHubSuccessToast(form) ==
  Toast("Repository Created Successfully",
        <<"Repository \"">> \o form.repoName
          \o <<"\" has been created and files uploaded to GitHub">>)

\* the frame of a createGitHubRepo call; issued holds the paths a PUT was
\* sent for, warned the paths console.warn logged, refused the paths whose
\* PUT was answered with a status that is not 2xx, calls the kinds of
\* request sent, created whether the create call was answered 2xx, and
\* outstanding the number of requests sent and not yet settled
GHIdle ==
  [pc |-> "idle", fileTree |-> <<>>, token |-> <<>>, form |-> <<>>, repoData |-> Undefined,
   files |-> <<>>, i |-> 0, issued |-> <<>>, warned |-> <<>>, refused |-> <<>>,
   error |-> Undefined, calls |-> {}, created |-> FALSE, outstanding |-> 0]

\* evaluating the arguments of the PUT fetch throws: repoData.full_name of
\* null, or btoa of the content
PutArgumentsThrow(frame, entry) ==
  frame.repoData = Some("null") \/ BtoaThrows(entry.content)

\* the for-of loop over Object.entries(files) from entry i up to its next
\* await, or to the end of the loop
RECURSIVE GitHubUploadLoop(_, _)
GitHubUploadLoop(frame, i) ==
  IF i > Len(frame.files) THEN [frame EXCEPT !.pc = "done", !.i = i]
  ELSE IF PutArgumentsThrow(frame, frame.files[i])
    THEN GitHubUploadLoop([frame EXCEPT !.warned = Append(@, frame.files[i].path)], i + 1)
  ELSE [frame EXCEPT !.pc = "put", !.i = i, !.issued = Append(@, frame.files[i].path),
                     !.calls = @ \cup {"put"}, !.outstanding = @ + 1]

InitialGitHubForm ==
  [repoName    |-> <<"m", "y", "-", "p", "r", "o", "j", "e", "c", "t">>,
   description |-> <<"Project created with File Structure Builder">>,
   isPrivate   |-> FALSE]

ExportInit ==
  /\ huggingfaceToken = <<>>
  /\ hfForm = InitialHFForm
  /\ isHFDialogOpen = FALSE
  /\ isCreatingSpace = FALSE
  /\ hf = HFIdle
  /\ toast = Undefined
  /\ githubToken = <<>>
  /\ githubForm = InitialGitHubForm
  /\ isGitHubDialogOpen = FALSE
  /\ isCreatingRepo = FALSE
  /\ gh = GHIdle

(***************************************************************************)
(* Bounds and input alphabets                                              *)
(***************************************************************************)
MaxNodes == 4

MaxTicks == 1

MaxLines == 4

\* Date.now() is far past the ids '1', '2', '3' of the initial tree
ClockStart == NodeCount(InitialTree) + 1

\* names typed into the new-item input
ItemNames == {<<"a">>, <<" ">>}

\* texts typed into the code editor
Contents == {<<"x">>}

\* Math.random() draws for the lines of one parse: pairwise distinct
\* suffixes, or the same (empty) suffix every time
RandomDraws(n) == {[i \in 1..n |-> i * d] : d \in 0..1}

RECURSIVE JoinLines(_)
JoinLines(lines) ==
  IF Len(lines) = 0 THEN <<>>
  ELSE IF Len(lines) = 1 THEN lines[1]
  ELSE lines[1] \o <<"NL">> \o JoinLines(Tail(lines))

\* listings pasted into the importer of the running application
AppTexts ==
  { JoinLines(<< <<" ", "d", "/">>,
                 <<" ", " ", " ", " ", " ", "e", "/">>,
                 <<" ", " ", " ", " ", " ", "f">> >>),
    <<>> }

(***************************************************************************)
(* Actions                                                                 *)
(***************************************************************************)
NoEvent == [op |-> "other", id |-> <<0, 0>>, depth |-> 0]

\* nesting depth (1 = root) of the shallowest node with the given id, 0 if none
RECURSIVE DepthOfId(_, _)
DepthOfId(nodes, id) ==
  IF \E i \in 1..Len(nodes) : nodes[i].id = id THEN 1
  ELSE LET below == {DepthOfId(nodes[i].children[1], id) :
                       i \in {j \in 1..Len(nodes) : nodes[j].children # Undefined}} \ {0}
       IN  IF below = {} THEN 0
           ELSE 1 + (CHOOSE d \in below : \A e \in below : d <= e)

Init ==
  /\ fileTree = InitialTree
  /\ selectedFile = Undefined
  /\ now = ClockStart
  /\ structureText = <<>>
  /\ parsedStructure = Undefined
  /\ lastEvent = NoEvent
  /\ ExportInit

\* the environment: the millisecond clock read by Date.now() advances
Tick ==
  /\ now < ClockStart + MaxTicks
  /\ now' = now + 1
  /\ lastEvent' = NoEvent
  /\ UNCHANGED <<fileTree, selectedFile, structureText, parsedStructure, exportVars>>

\* FileExplorer.addNewItem with the typed name and the chosen type
AddNewItem(newItemName, newItemType) ==
  /\ Trim(newItemName) # <<>>
  /\ NodeCount(fileTree) < MaxNodes
  /\ fileTree' = Append(fileTree, NewItem(now, newItemName, newItemType))
  /\ lastEvent' = NoEvent
  /\ UNCHANGED <<selectedFile, now, structureText, parsedStructure, exportVars>>

\* FileExplorer.deleteItem, reached from the trash button of a rendered node
DeleteItem(itemId) ==
  /\ fileTree' = filterNodes(fileTree, itemId)
  /\ selectedFile' =
       IF selectedFile # Undefined /\ selectedFile[1].id = itemId
         THEN Undefined ELSE selectedFile
  /\ lastEvent' =
       IF selectedFile # Undefined /\ selectedFile[1].id = itemId
         THEN [op |-> "deleteSelected", id |-> itemId, depth |-> DepthOfId(fileTree, itemId)]
         ELSE NoEvent
  /\ UNCHANGED <<now, structureText, parsedStructure, exportVars>>

\* the row click handler of renderFileNode on a file node.  selectedFile
\* holds the clicked node object; the handlers read its id, name and type
\* only, so the stale content it carries is left out.
SelectFile(node) ==
  /\ node.type # "folder"
  /\ selectedFile' = Some([id |-> node.id, name |-> node.name, type |-> node.type])
  /\ lastEvent' = NoEvent
  /\ UNCHANGED <<fileTree, now, structureText, parsedStructure, exportVars>>

\* CodeEditor.handleContentChange -> Index.updateFileContent
HandleContentChange(newContent) ==
  /\ selectedFile # Undefined
  /\ selectedFile[1].type # "folder"
  /\ fileTree' = updateNode(fileTree, selectedFile[1].id, newContent)
  /\ lastEvent' = NoEvent
  /\ UNCHANGED <<selectedFile, now, structureText, parsedStructure, exportVars>>

\* deleteItem with the call on record: the id and the forest it was given
DeleteItemRecorded(itemId) ==
  /\ fileTree' = filterNodes(fileTree, itemId)
  /\ selectedFile' =
       IF selectedFile # Undefined /\ selectedFile[1].id = itemId
         THEN Undefined ELSE selectedFile
  /\ lastEvent' = [op |-> "deleteItem", id |-> itemId,
                   depth |-> DepthOfId(fileTree, itemId),
                   before |-> fileTree, content |-> <<>>]
  /\ UNCHANGED <<now, structureText, parsedStructure, exportVars>>

\* handleContentChange with the updateFileContent call on record: the id,
\* the content and the forest it was given
HandleContentChangeRecorded(newContent) ==
  /\ selectedFile # Undefined
  /\ selectedFile[1].type # "folder"
  /\ fileTree' = updateNode(fileTree, selectedFile[1].id, newContent)
  /\ lastEvent' = [op |-> "updateFileContent", id |-> selectedFile[1].id,
                   depth |-> DepthOfId(fileTree, selectedFile[1].id),
                   before |-> fileTree, content |-> newContent]
  /\ UNCHANGED <<selectedFile, now, structureText, parsedStructure, exportVars>>

\* the textarea onChange of StructureImporter
SetStructureText(text) ==
  /\ structureText' = text
  /\ lastEvent' = NoEvent
  /\ UNCHANGED <<fileTree, selectedFile, now, parsedStructure, exportVars>>

\* StructureImporter.handleImport -> FileExplorer.handleStructureImport,
\* then onClose, which unmounts the importer and drops its text
ImportStructure(rnd) ==
  /\ Trim(structureText) # <<>>
  /\ NodeCount(fileTree) + Len(ParseHeap(structureText, now, rnd).heap) <= MaxNodes
  /\ fileTree' = fileTree \o parseStructure(structureText, now, rnd)
  /\ structureText' = <<>>
  /\ lastEvent' = NoEvent
  /\ UNCHANGED <<selectedFile, now, exportVars>>

HandleImport(rnd) ==
  /\ ImportStructure(rnd)
  /\ UNCHANGED <<parsedStructure>>

\* handleImport with the parseStructure call on record: the text, the object
\* graph built by the loop, the root references and the returned forest
HandleImportRecorded(rnd) ==
  /\ ImportStructure(rnd)
  /\ LET st == ParseHeap(structureText, now, rnd)
     IN  parsedStructure' = Some([text |-> structureText, heap |-> st.heap,
                                  result |-> st.result,
                                  forest |-> parseStructure(structureText, now, rnd)])

(***************************************************************************)
(* Publish actions (Hugging Face Space)                                    *)
(***************************************************************************)
Tokens == {<<>>, <<"h", "f", "_", "x">>}

SpaceNames == {InitialHFForm.spaceName, <<" ">>}

SdkKinds == {"gradio", "streamlit", "static"}

Statuses == {200, 404, 500}

\* the body of a response that is retried is overwritten before it is read
UnreadBody == Body("unread", Undefined)

ErrorBodies ==
  { Body("invalid", Undefined), Body("null", Undefined), Body("object", Undefined),
    Body("object", Some(<<>>)), Body("object", Some(<<"Repository Not Found">>)) }

\* AuthPanel: onChange of the Hugging Face token input
SetHuggingfaceToken(token) ==
  /\ huggingfaceToken' = token
  /\ UNCHANGED <<editorVars, ghVars, hfForm, isHFDialogOpen, isCreatingSpace, hf, toast>>

\* ExportPanel: onChange of the space name input
SetSpaceName(spaceName) ==
  /\ isHFDialogOpen
  /\ hfForm' = [hfForm EXCEPT !.spaceName = spaceName]
  /\ UNCHANGED <<editorVars, ghVars, huggingfaceToken, isHFDialogOpen, isCreatingSpace, hf, toast>>

\* ExportPanel: onChange of the SDK select
SetSdk(sdk) ==
  /\ isHFDialogOpen
  /\ hfForm' = [hfForm EXCEPT !.sdk = sdk]
  /\ UNCHANGED <<editorVars, ghVars, huggingfaceToken, isHFDialogOpen, isCreatingSpace, hf, toast>>

\* Dialog onOpenChange and the Cancel button
SetIsHFDialogOpen(open) ==
  /\ isHFDialogOpen' = open
  /\ UNCHANGED <<editorVars, ghVars, huggingfaceToken, hfForm, isCreatingSpace, hf, toast>>

\* faulty variant: an empty project passes
validateProjectStructureAlways(tree) == TRUE

\* fileTree.length === 0 fails
validateProjectStructure(tree) == Len(tree) # 0

\* !token fails (validateGitHubAuth, validateHuggingFaceAuth)
validateAuth(token) == token # <<>>

\* a call that returned at a failed check: no locals, the toast it showed
Rejected(idle, reason) == [idle EXCEPT !.pc = "rejected", !.error = Some(reason[1].title)]

TokenRequiredToast ==
  Toast("Hugging Face Token Required",
        <<"Please enter your Hugging Face token in the Authentication panel">>)

NoFilesToast ==
  Toast("No Files to Export", <<"Please create some files and folders before exporting">>)

SpaceNameRequiredToast == Toast("Space Name Required", <<"Please enter a valid space name">>)

\* deployToHuggingFace
DeployToHuggingFace ==
  /\ IF ~validateAuth(huggingfaceToken)
       THEN toast' = TokenRequiredToast /\ UNCHANGED isHFDialogOpen
     ELSE IF ~validateProjectStructure(fileTree)
       THEN toast' = NoFilesToast /\ UNCHANGED isHFDialogOpen
     ELSE isHFDialogOpen' = TRUE /\ UNCHANGED toast
  /\ UNCHANGED <<editorVars, ghVars, huggingfaceToken, hfForm, isCreatingSpace, hf>>

\* faulty variant: a call after a failed upload resumes the upload loop of
\* the earlier call
HFBeginResuming(prev, tree, token, form) ==
  IF prev.pc = "failed" /\ prev.attempts >= 1
    THEN [prev EXCEPT !.pc = "put", !.error = Undefined]
    ELSE [HFIdle EXCEPT !.pc = "whoami", !.fileTree = tree, !.token = token, !.form = form,
                        !.calls = {"whoami"}, !.outstanding = 1]

\* a call of createHuggingFaceSpace that passed validation: fresh locals, the
\* props and state of the render it closes over, and the whoami fetch issued
HFBegin(prev, tree, token, form) ==
  [HFIdle EXCEPT !.pc = "whoami", !.fileTree = tree, !.token = token, !.form = form,
                 !.calls = {"whoami"}, !.outstanding = 1]

\* createHuggingFaceSpace from the click on Create Space to its first await
CreateHuggingFaceSpace ==
  /\ isHFDialogOpen
  /\ ~isCreatingSpace
  /\ IF ~validateAuth(huggingfaceToken)
       THEN /\ toast' = TokenRequiredToast
            /\ hf' = Rejected(HFIdle, TokenRequiredToast)
            /\ UNCHANGED isCreatingSpace
     ELSE IF ~validateProjectStructure(fileTree)
       THEN /\ toast' = NoFilesToast
            /\ hf' = Rejected(HFIdle, NoFilesToast)
            /\ UNCHANGED isCreatingSpace
     ELSE IF Trim(hfForm.spaceName) = <<>>
       THEN /\ toast' = SpaceNameRequiredToast
            /\ hf' = Rejected(HFIdle, SpaceNameRequiredToast)
            /\ UNCHANGED isCreatingSpace
     ELSE /\ isCreatingSpace' = TRUE
          /\ hf' = HFBegin(hf, fileTree, huggingfaceToken, hfForm)
          /\ UNCHANGED toast
  /\ UNCHANGED <<editorVars, ghVars, huggingfaceToken, hfForm, isHFDialogOpen>>

\* faulty variant: no finally block
HFFailFlagKept(frame, message) ==
  /\ hf' = [frame EXCEPT !.pc = "failed", !.error = Some(message)]
  /\ toast' = FailureToast(message)
  /\ UNCHANGED <<isCreatingSpace, isHFDialogOpen>>

\* the catch and finally blocks of createHuggingFaceSpace
HFFail(frame, message) ==
  /\ hf' = [frame EXCEPT !.pc = "failed", !.error = Some(message)]
  /\ toast' = FailureToast(message)
  /\ isCreatingSpace' = FALSE
  /\ UNCHANGED isHFDialogOpen

\* the whoami fetch settles: ok, not ok, ok with a body that is not JSON, or
\* the fetch rejects
WhoamiSettled(outcome) ==
  /\ hf.pc = "whoami"
  /\ LET settled == [hf EXCEPT !.outstanding = @ - 1]
     IN  IF outcome = "ok"
           THEN /\ hf' = [settled EXCEPT !.pc = "create", !.calls = @ \cup {"create"},
                                         !.outstanding = @ + 1]
                /\ UNCHANGED <<toast, isCreatingSpace, isHFDialogOpen>>
         ELSE IF outcome = "notok" THEN HFFail(settled, <<"Invalid Hugging Face token">>)
         ELSE IF outcome = "badjson"
           THEN HFFail(settled, <<"SyntaxError: Unexpected token in JSON">>)
         ELSE HFFail(settled, <<"Failed to fetch">>)
  /\ UNCHANGED <<editorVars, ghVars, huggingfaceToken, hfForm>>

\* a call of uploadWithRetry up to its first fetch
StartUpload(frame, i) ==
  [frame EXCEPT !.pc = "put", !.i = i, !.t = 0, !.delay = Ms(BaseDelayMs),
                !.res = Undefined, !.lastErr = Undefined, !.attempts = 1, !.sleeps = <<>>,
                !.calls = @ \cup {"put"}, !.outstanding = @ + 1]

\* faulty variant: the upload list is gathered from the state of the latest
\* render instead of the render the call closes over
CreateResponseLive(status, body) ==
  /\ hf.pc = "create"
  /\ LET settled == [hf EXCEPT !.outstanding = @ - 1, !.created = Ok(status)]
     IN  IF SpaceCreateFails(status) THEN HFFail(settled, CreateErrorMessage(body))
         ELSE /\ hf' = StartUpload([settled EXCEPT
                                      !.hfFiles = HFFiles(hfForm, fileTree)], 1)
              /\ UNCHANGED <<toast, isCreatingSpace, isHFDialogOpen>>
  /\ UNCHANGED <<editorVars, ghVars, huggingfaceToken, hfForm>>

\* the create fetch resolves
CreateResponse(status, body) ==
  /\ hf.pc = "create"
  /\ LET settled == [hf EXCEPT !.outstanding = @ - 1, !.created = Ok(status)]
     IN  IF SpaceCreateFails(status) THEN HFFail(settled, CreateErrorMessage(body))
         ELSE /\ hf' = StartUpload([settled EXCEPT
                                      !.hfFiles = HFFiles(hf.form, hf.fileTree)], 1)
              /\ UNCHANGED <<toast, isCreatingSpace, isHFDialogOpen>>
  /\ UNCHANGED <<editorVars, ghVars, huggingfaceToken, hfForm>>

\* a fetch of the run rejects (network failure)
FetchRejected ==
  /\ hf.pc \in {"create", "put"}
  /\ HFFail([hf EXCEPT !.res = Undefined, !.outstanding = @ - 1], <<"Failed to fetch">>)
  /\ UNCHANGED <<editorVars, ghVars, huggingfaceToken, hfForm>>

\* the PUT fetch of uploadWithRetry resolves: the rest of the loop body, and
\* on return the next iteration of the upload loop or the success path
PutResponse(status, body) ==
  /\ hf.pc = "put"
  /\ LET file    == hf.hfFiles[hf.i]
         res     == [status |-> status, body |-> body]
         settled == [hf EXCEPT !.outstanding = @ - 1,
                               !.uploaded = IF status \in 200..299
                                              THEN Append(@, file.path) ELSE @]
     IN  IF Ok(status)
           THEN IF hf.i < Len(hf.hfFiles)
                  THEN /\ hf' = StartUpload(settled, hf.i + 1)
                       /\ UNCHANGED <<toast, isCreatingSpace, isHFDialogOpen>>
                  ELSE /\ hf' = [settled EXCEPT !.pc = "done", !.res = Some(res)]
                       /\ toast' = Toast("Space Created & Files Synced!",
                                         <<"All files/folders have been uploaded to Hugging Face Space \"">>
                                           \o hf.form.spaceName \o <<"\".">>)
                       /\ isHFDialogOpen' = FALSE
                       /\ isCreatingSpace' = FALSE
         ELSE IF ShouldRetry(status, hf.t)
           THEN /\ hf' = [settled EXCEPT !.pc = "sleep", !.res = Some(res),
                                         !.lastErr = Some(res), !.sleeps = Append(@, hf.delay)]
                /\ UNCHANGED <<toast, isCreatingSpace, isHFDialogOpen>>
         ELSE HFFail([settled EXCEPT !.res = Some(res), !.lastErr = Some(res)],
                     UploadErrorMessage(file, res))
  /\ UNCHANGED <<editorVars, ghVars, huggingfaceToken, hfForm>>

\* the sleep timer fires: the delay update and the next fetch of the loop
SleepDone ==
  /\ hf.pc = "sleep"
  /\ hf' = [hf EXCEPT !.pc = "put", !.delay = NextDelay(@), !.t = @ + 1, !.attempts = @ + 1,
                      !.outstanding = @ + 1]
  /\ UNCHANGED <<editorVars, ghVars, huggingfaceToken, hfForm, isHFDialogOpen, isCreatingSpace, toast>>

(***************************************************************************)
(* Publish actions (GitHub repository)                                     *)
(***************************************************************************)
GitHubTokenRequiredToast ==
  Toast("GitHub Token Required",
        <<"Please enter your GitHub token in the Authentication panel">>)

RepoNameRequiredToast ==
  Toast("Repository Name Required", <<"Please enter a valid repository name">>)

\* Dialog onOpenChange and the Cancel button
SetIsGitHubDialogOpen(open) ==
  /\ isGitHubDialogOpen' = open
  /\ UNCHANGED <<editorVars, hfVars, githubToken, githubForm, isCreatingRepo, gh, toast>>

\* pushToGithub
PushToGithub ==
  /\ IF ~validateAuth(githubToken)
       THEN toast' = GitHubTokenRequiredToast /\ UNCHANGED isGitHubDialogOpen
     ELSE IF ~validateProjectStructure(fileTree)
       THEN toast' = NoFilesToast /\ UNCHANGED isGitHubDialogOpen
     ELSE isGitHubDialogOpen' = TRUE /\ UNCHANGED toast
  /\ UNCHANGED <<editorVars, hfVars, githubToken, githubForm, isCreatingRepo, gh>>

\* a call of createGitHubRepo that passed validation: fresh locals, the props
\* and state of the render it closes over, and the create fetch issued
GHBegin(prev, tree, token, form) ==
  [GHIdle EXCEPT !.pc = "create", !.fileTree = tree, !.token = token, !.form = form,
                 !.calls = {"create"}, !.outstanding = 1]

\* createGitHubRepo from the click on Create Repository to its first await
CreateGitHubRepo ==
  /\ isGitHubDialogOpen
  /\ ~isCreatingRepo
  /\ IF ~validateAuth(githubToken)
       THEN /\ toast' = GitHubTokenRequiredToast
            /\ gh' = Rejected(GHIdle, GitHubTokenRequiredToast)
            /\ UNCHANGED isCreatingRepo
     ELSE IF ~validateProjectStructure(fileTree)
       THEN /\ toast' = NoFilesToast
            /\ gh' = Rejected(GHIdle, NoFilesToast)
            /\ UNCHANGED isCreatingRepo
     ELSE IF Trim(githubForm.repoName) = <<>>
       THEN /\ toast' = RepoNameRequiredToast
            /\ gh' = Rejected(GHIdle, RepoNameRequiredToast)
            /\ UNCHANGED isCreatingRepo
     ELSE /\ isCreatingRepo' = TRUE
          /\ gh' = GHBegin(gh, fileTree, githubToken, githubForm)
          /\ UNCHANGED toast
  /\ UNCHANGED <<editorVars, hfVars, githubToken, githubForm, isGitHubDialogOpen>>

\* the outer catch and the finally block of createGitHubRepo
GHFail(frame, message) ==
  /\ gh' = [frame EXCEPT !.pc = "failed", !.error = Some(message)]
  /\ toast' = GitHubFailureToast(message)
  /\ isCreatingRepo' = FALSE
  /\ UNCHANGED isGitHubDialogOpen

\* the upload loop has run to frame: it waits for a PUT, or it has ended and
\* the success toast, setIsGitHubDialogOpen(false) and the finally block run
GHContinue(frame) ==
  /\ gh' = frame
  /\ IF frame.pc = "done"
       THEN /\ toast' = GitHubSuccessToast(frame.form)
            /\ isGitHubDialogOpen' = FALSE
            /\ isCreatingRepo' = FALSE
       ELSE UNCHANGED <<toast, isGitHubDialogOpen, isCreatingRepo>>

\* the create fetch resolves; body is the parsed body: not JSON, null or an
\* object
RepoCreateResponse(status, body) ==
  /\ gh.pc = "create"
  /\ LET settled == [gh EXCEPT !.outstanding = @ - 1, !.created = Ok(status)]
     IN  IF RepoCreateFails(status) THEN GHFail(settled, RepoErrorMessage(body))
         ELSE IF body.kind = "invalid"
           THEN GHFail(settled, <<"SyntaxError: Unexpected token in JSON">>)
         ELSE GHContinue(GitHubUploadLoop(
                [settled EXCEPT !.repoData = Some(body.kind),
                                !.files = convertFileTreeToGitHubFiles(gh.fileTree, <<>>)], 1))
  /\ UNCHANGED <<editorVars, hfVars, githubToken, githubForm>>

\* the create fetch rejects (network failure)
RepoCreateRejected ==
  /\ gh.pc = "create"
  /\ GHFail([gh EXCEPT !.outstanding = @ - 1], <<"Failed to fetch">>)
  /\ UNCHANGED <<editorVars, hfVars, githubToken, githubForm>>

\* the PUT of the current entry resolves with any status: the response is
\* dropped and the loop goes on
RepoPutResponse(status) ==
  /\ gh.pc = "put"
  /\ GHContinue(GitHubUploadLoop(
       [gh EXCEPT !.outstanding = @ - 1,
                  !.refused = IF Ok(status) THEN @ ELSE Append(@, gh.files[gh.i].path)],
       gh.i + 1))
  /\ UNCHANGED <<editorVars, hfVars, githubToken, githubForm>>

\* the PUT of the current entry rejects: the inner catch logs the path and
\* the loop goes on
RepoPutRejected ==
  /\ gh.pc = "put"
  /\ GHContinue(GitHubUploadLoop(
       [gh EXCEPT !.outstanding = @ - 1, !.warned = Append(@, gh.files[gh.i].path)],
       gh.i + 1))
  /\ UNCHANGED <<editorVars, hfVars, githubToken, githubForm>>

\* projects a publish starts from: the initial tree, and an emptied project
\* with one new empty folder or one new file app.js
PublishForests ==
  { InitialTree,
    << NewItem(ClockStart, <<"a">>, "folder") >>,
    << NewItem(ClockStart, <<"a", "p", "p", ".", "j", "s">>, "file") >> }

PublishInit ==
  /\ fileTree \in PublishForests
  /\ selectedFile = Undefined
  /\ now = ClockStart
  /\ structureText = <<>>
  /\ parsedStructure = Undefined
  /\ lastEvent = NoEvent
  /\ ExportInit

PublishNext ==
  \/ \E token \in Tokens : SetHuggingfaceToken(token)
  \/ \E spaceName \in SpaceNames : SetSpaceName(spaceName)
  \/ \E sdk \in SdkKinds : SetSdk(sdk)
  \/ \E open \in BOOLEAN : SetIsHFDialogOpen(open)
  \/ DeployToHuggingFace
  \/ CreateHuggingFaceSpace
  \/ \E outcome \in {"ok", "notok", "badjson", "rejected"} : WhoamiSettled(outcome)
  \/ \E status \in Statuses, body \in ErrorBodies : CreateResponse(status, body)
  \/ FetchRejected
  \/ \E status \in Statuses :
       \E body \in (IF ~Ok(status) /\ ~ShouldRetry(status, hf.t) THEN ErrorBodies ELSE {UnreadBody}) :
         PutResponse(status, body)
  \/ SleepDone

SpecPublish == PublishInit /\ [][PublishNext]_vars

NodesOf(nodes) == {AllNodes(nodes)[i] : i \in 1..Len(AllNodes(nodes))}

Next ==
  \/ Tick
  \/ \E newItemName \in ItemNames, newItemType \in {"file", "folder"} :
       AddNewItem(newItemName, newItemType)
  \/ \E node \in NodesOf(fileTree) : DeleteItem(node.id)
  \/ \E node \in NodesOf(fileTree) : SelectFile(node)
  \/ \E newContent \in Contents : HandleContentChange(newContent)
  \/ \E text \in AppTexts : SetStructureText(text)
  \/ \E rnd \in RandomDraws(Len(NonBlankLines(structureText))) : HandleImport(rnd)

Spec == Init /\ [][Next]_vars

(***************************************************************************)
(* The explorer and the importer with names and listings that hold a       *)
(* slash.                                                                  *)
(***************************************************************************)
\* names typed into the new item input
PathNames == {<<"a">>, <<"/", "a">>}

\* listings pasted into the importer
PathTexts == {<<" ", "/", "a">>}

NamesNext ==
  \/ \E newItemName \in PathNames, newItemType \in {"file", "folder"} :
       AddNewItem(newItemName, newItemType)
  \/ \E node \in NodesOf(fileTree) : DeleteItem(node.id)
  \/ \E text \in PathTexts : SetStructureText(text)
  \/ \E rnd \in RandomDraws(Len(NonBlankLines(structureText))) : HandleImport(rnd)

SpecNames == Init /\ [][NamesNext]_vars

(***************************************************************************)
(* The explorer and the editor with every deleteItem and updateFileContent *)
(* call on record.                                                         *)
(***************************************************************************)
EditNext ==
  \/ Tick
  \/ \E newItemName \in ItemNames, newItemType \in {"file", "folder"} :
       AddNewItem(newItemName, newItemType)
  \/ \E node \in NodesOf(fileTree) : DeleteItemRecorded(node.id)
  \/ \E node \in NodesOf(fileTree) : SelectFile(node)
  \/ \E newContent \in Contents : HandleContentChangeRecorded(newContent)

SpecEdit == Init /\ [][EditNext]_vars

(***************************************************************************)
(* The explorer, the editor and the importer at one clock value, with      *)
(* listings in which a deeper line follows a File line.                    *)
(***************************************************************************)
\* a deeper line after a File line: under a folder, and with no folder open
LinkTexts ==
  { JoinLines(<< <<" ", "d", "/">>,
                 <<" ", " ", " ", " ", " ", "f">>,
                 <<" ", " ", " ", " ", " ", " ", " ", " ", " ", "g">> >>),
    JoinLines(<< <<" ", "f">>,
                 <<" ", " ", " ", " ", " ", "g">> >>) }

LinkNext ==
  \/ \E newItemType \in {"file", "folder"} : AddNewItem(<<"a">>, newItemType)
  \/ \E node \in NodesOf(fileTree) : DeleteItem(node.id)
  \/ \E node \in NodesOf(fileTree) : SelectFile(node)
  \/ \E newContent \in Contents : HandleContentChange(newContent)
  \/ \E text \in LinkTexts : SetStructureText(text)
  \/ \E rnd \in RandomDraws(Len(NonBlankLines(structureText))) : HandleImport(rnd)

SpecLink == Init /\ [][LinkNext]_vars

(***************************************************************************)
(* The export panel alone, both targets: the tokens, the forms and the     *)
(* project are as the user left them, and the two publishes run            *)
(* interleaved.                                                            *)
(***************************************************************************)
GitHubTokens == {<<>>, <<"g", "h", "p", "_", "x">>}

RepoNames == {InitialGitHubForm.repoName, <<" ">>}

FileWithContent(t, name, content) ==
  [NewItem(t, name, "file") EXCEPT !.content = Some(content)]

\* projects: emptied; two files with typed content; one file whose content
\* holds a character above U+00FF
ExportForests ==
  { <<>>,
    << FileWithContent(ClockStart, <<"a">>, <<"x">>),
       FileWithContent(ClockStart + 1, <<"c">>, <<"x">>) >>,
    << FileWithContent(ClockStart, <<"b">>, <<"CHECK">>) >> }

\* bodies of the answers to the create calls
CreateBodies ==
  { Body("invalid", Undefined), Body("null", Undefined), Body("object", Undefined),
    Body("object", Some(<<"name already exists on this account">>)) }

ExportPanelInit ==
  /\ fileTree \in ExportForests
  /\ selectedFile = Undefined
  /\ now = ClockStart + 2
  /\ structureText = <<>>
  /\ parsedStructure = Undefined
  /\ lastEvent = NoEvent
  /\ huggingfaceToken \in Tokens
  /\ hfForm \in {[InitialHFForm EXCEPT !.spaceName = n] : n \in SpaceNames}
  /\ isHFDialogOpen = FALSE
  /\ isCreatingSpace = FALSE
  /\ hf = HFIdle
  /\ toast = Undefined
  /\ githubToken \in GitHubTokens
  /\ githubForm \in {[InitialGitHubForm EXCEPT !.repoName = n] : n \in RepoNames}
  /\ isGitHubDialogOpen = FALSE
  /\ isCreatingRepo = FALSE
  /\ gh = GHIdle

SpaceNext ==
  \/ \E open \in BOOLEAN : SetIsHFDialogOpen(open)
  \/ DeployToHuggingFace
  \/ CreateHuggingFaceSpace
  \/ \E outcome \in {"ok", "notok", "badjson", "rejected"} : WhoamiSettled(outcome)
  \/ \E status \in Statuses, body \in CreateBodies : CreateResponse(status, body)
  \/ FetchRejected
  \/ \E status \in Statuses :
       \E body \in (IF ~Ok(status) /\ ~ShouldRetry(status, hf.t) THEN ErrorBodies ELSE {UnreadBody}) :
         PutResponse(status, body)
  \/ SleepDone

RepoNext ==
  \/ \E open \in BOOLEAN : SetIsGitHubDialogOpen(open)
  \/ PushToGithub
  \/ CreateGitHubRepo
  \/ \E status \in Statuses, body \in CreateBodies : RepoCreateResponse(status, body)
  \/ RepoCreateRejected
  \/ \E status \in Statuses : RepoPutResponse(status)
  \/ RepoPutRejected

ExportNext == SpaceNext \/ RepoNext

SpecExport == ExportPanelInit /\ [][ExportNext]_vars

(***************************************************************************)
(* The two publishes under fairness: both dialogs are open on a project of *)
(* one file with valid tokens and names, Create is clicked at will, every  *)
(* request eventually returns or throws and every timer fires.             *)
(***************************************************************************)
LiveBodies == {Body("invalid", Undefined), Body("object", Undefined)}

LiveInit ==
  /\ fileTree = << FileWithContent(ClockStart, <<"a">>, <<"x">>) >>
  /\ selectedFile = Undefined
  /\ now = ClockStart + 1
  /\ structureText = <<>>
  /\ parsedStructure = Undefined
  /\ lastEvent = NoEvent
  /\ huggingfaceToken = <<"h", "f", "_", "x">>
  /\ hfForm = InitialHFForm
  /\ isHFDialogOpen = TRUE
  /\ isCreatingSpace = FALSE
  /\ hf = HFIdle
  /\ toast = Undefined
  /\ githubToken = <<"g", "h", "p", "_", "x">>
  /\ githubForm = InitialGitHubForm
  /\ isGitHubDialogOpen = TRUE
  /\ isCreatingRepo = FALSE
  /\ gh = GHIdle

\* the steps that settle what a run awaits: a fetch returns or throws, the
\* sleep timer fires
SpaceSettles ==
  \/ \E outcome \in {"ok", "notok", "badjson", "rejected"} : WhoamiSettled(outcome)
  \/ \E status \in Statuses, body \in LiveBodies : CreateResponse(status, body)
  \/ FetchRejected
  \/ \E status \in Statuses :
       \E body \in (IF ~Ok(status) /\ ~ShouldRetry(status, hf.t) THEN LiveBodies ELSE {UnreadBody}) :
         PutResponse(status, body)
  \/ SleepDone

RepoSettles ==
  \/ \E status \in Statuses, body \in LiveBodies : RepoCreateResponse(status, body)
  \/ RepoCreateRejected
  \/ \E status \in Statuses : RepoPutResponse(status)
  \/ RepoPutRejected

LiveNext ==
  \/ CreateHuggingFaceSpace
  \/ CreateGitHubRepo
  \/ SpaceSettles
  \/ RepoSettles

SpecExportLive ==
  LiveInit /\ [][LiveNext]_vars /\ WF_vars(SpaceSettles) /\ WF_vars(RepoSettles)

(***************************************************************************)
(* A publish with the user at work: one of the two dialogs is open with    *)
(* valid tokens on the initial project, and while the run waits for its    *)
(* requests the user closes the dialog, retypes the form, adds, deletes,   *)
(* edits and imports.                                                      *)
(***************************************************************************)
BusyTexts == {<<"f">>}

BusyInit ==
  /\ fileTree = InitialTree
  /\ selectedFile = Undefined
  /\ now = ClockStart
  /\ structureText = <<>>
  /\ parsedStructure = Undefined
  /\ lastEvent = NoEvent
  /\ huggingfaceToken = <<"h", "f", "_", "x">>
  /\ hfForm = InitialHFForm
  /\ isHFDialogOpen \in BOOLEAN
  /\ isCreatingSpace = FALSE
  /\ hf = HFIdle
  /\ toast = Undefined
  /\ githubToken = <<"g", "h", "p", "_", "x">>
  /\ githubForm = InitialGitHubForm
  /\ isGitHubDialogOpen = ~isHFDialogOpen
  /\ isCreatingRepo = FALSE
  /\ gh = GHIdle

Named(name) == \E node \in NodesOf(fileTree) : node.name = name

\* what the user does while a run is under way: a file a is added and a
\* listing that names a file f is imported unless the project has one, any
\* node is deleted, any file is opened and typed into
UserEvents ==
  \/ ~Named(<<"a">>) /\ AddNewItem(<<"a">>, "file")
  \/ \E node \in NodesOf(fileTree) : DeleteItem(node.id)
  \/ \E node \in NodesOf(fileTree) : SelectFile(node)
  \/ \E newContent \in Contents : HandleContentChange(newContent)
  \/ \E text \in BusyTexts : ~Named(text) /\ SetStructureText(text)
  \/ HandleImport(<<1>>)
  \/ SetIsHFDialogOpen(FALSE)
  \/ SetIsGitHubDialogOpen(FALSE)
  \/ SetSdk("static")

\* the steps of the runs; every request is answered 200
RunSteps ==
  \/ CreateHuggingFaceSpace
  \/ WhoamiSettled("ok")
  \/ CreateResponse(200, Body("object", Undefined))
  \/ PutResponse(200, UnreadBody)
  \/ CreateGitHubRepo
  \/ RepoCreateResponse(200, Body("object", Undefined))
  \/ RepoPutResponse(200)

BusyNext ==
  \/ (isCreatingSpace \/ isCreatingRepo) /\ UserEvents
  \/ RunSteps

SpecBusy == BusyInit /\ [][BusyNext]_vars

(***************************************************************************)
(* The importer alone: a listing is pasted into the importer of an emptied *)
(* project and imported once.                                              *)
(***************************************************************************)
\* indentation prefixes as tree(1) prints them, and a bare 6-space indent
LinePrefixes ==
  { <<>>,
    <<"BOX_VR", "BOX_H", "BOX_H", " ">>,
    <<"BOX_V", " ", " ", " ", "BOX_VR", "BOX_H", "BOX_H", " ">>,
    <<" ", " ", " ", " ", " ", " ">> }

LineSet == {p \o <<"a">> \o e : p \in LinePrefixes, e \in {<<>>, <<"/">>}}

GridTexts == {JoinLines(ls) : ls \in UNION {[1..n -> LineSet] : n \in 1..MaxLines}}

\* the listing of the depth-inference example
TreeExample ==
  JoinLines(<< <<"a", "p", "p", "/">>,
               <<"BOX_VR", "BOX_H", "BOX_H", " ", "m", "a", "i", "n", ".", "p", "y">>,
               <<"BOX_UR", "BOX_H", "BOX_H", " ", "s", "u", "b", "/">>,
               <<" ", " ", " ", " ", "BOX_UR", "BOX_H", "BOX_H", " ",
                 "d", "e", "e", "p", ".", "p", "y">> >>)

\* one-line listings that name a single file
StubNames ==
  { <<"r", "e", "q", "u", "i", "r", "e", "m", "e", "n", "t", "s", ".", "t", "x", "t">>,
    <<"a", ".", "t", "x", "t", "b", ".", "t", "x", "t">>,
    <<"m", "a", "i", "n", ".", "p", "y">>,
    <<"R", "E", "A", "D", "M", "E", ".", "m", "d">>,
    <<"c", ".", "j", "s", "o", "n">>,
    <<"D", "o", "c", "k", "e", "r", "f", "i", "l", "e">>,
    <<"M", "a", "k", "e", "f", "i", "l", "e">>,
    <<"n", ".", "T", "X", "T">>,
    <<"t", "x", "t">> }

\* a folder line indented by 5 columns followed by a line indented by 6
BucketExample ==
  JoinLines(<< <<" ", " ", " ", " ", " ", "a", "/">>,
               <<" ", " ", " ", " ", " ", " ", "b">> >>)

ParseTexts == GridTexts \cup {TreeExample, BucketExample} \cup StubNames

ParseInit ==
  /\ fileTree = <<>>
  /\ selectedFile = Undefined
  /\ now = ClockStart
  /\ structureText \in ParseTexts
  /\ parsedStructure = Undefined
  /\ lastEvent = NoEvent
  /\ ExportInit

ParseNext ==
  \E rnd \in RandomDraws(Len(NonBlankLines(structureText))) : HandleImportRecorded(rnd)

SpecParse == ParseInit /\ [][ParseNext]_vars

(***************************************************************************)
(* Properties of parseStructure (checked under SpecParse)                  *)
(***************************************************************************)
Imported == parsedStructure # Undefined

\* the references of the objects whose children array holds r
ParentRefs(heap, r) ==
  {p \in 1..Len(heap) :
     /\ heap[p].children # Undefined
     /\ \E i \in 1..Len(heap[p].children[1]) : heap[p].children[1][i] = r}

RECURSIVE Ancestors(_, _)
Ancestors(heap, r) ==
  ParentRefs(heap, r) \cup UNION {Ancestors(heap, p) : p \in ParentRefs(heap, r)}

ChildNames(node) == [i \in 1..Len(node.children[1]) |-> node.children[1][i].name]

NameApp == <<"a", "p", "p">>

NameMainPy == <<"m", "a", "i", "n", ".", "p", "y">>

NameSub == <<"s", "u", "b">>

NameDeepPy == <<"d", "e", "e", "p", ".", "p", "y">>

ExampleImported == Imported /\ parsedStructure[1].text = TreeExample

\* C1 as stated: for the listing app/, |-- main.py, `-- sub/, `-- deep.py
\* (deep.py indented one level more) the returned forest has a Folder node
\* app with exactly the two children main.py and sub, and deep.py is a child
\* of sub.
C1_AppHasTwoChildren ==
  ExampleImported =>
    \E app \in NodesOf(parsedStructure[1].forest) :
      /\ app.name = NameApp
      /\ app.type = "folder"
      /\ ChildNames(app) = <<NameMainPy, NameSub>>
      /\ ChildNames(app.children[1][2]) = <<NameDeepPy>>

\* C1 amended: for that listing the un-indented line app/ is discarded as the
\* root label; the returned forest has exactly two roots, the File main.py
\* and the Folder sub, deep.py is the only child of sub, and no node is
\* named app.
C1_ExampleForest ==
  ExampleImported =>
    LET forest == parsedStructure[1].forest
    IN  /\ Len(forest) = 2
        /\ forest[1].name = NameMainPy /\ forest[1].type = "file"
        /\ forest[2].name = NameSub /\ forest[2].type = "folder"
        /\ ChildNames(forest[2]) = <<NameDeepPy>>
        /\ forest[2].children[1][1].type = "file"
        /\ \A n \in NodesOf(forest) : n.name # NameApp

C1_Witness == ExampleImported /\ NodeCount(fileTree) = 3

\* F1, F2, L are node-creating lines (heap references, in line order): two
\* Folder lines of equal depth with only deeper lines between them, and the
\* next line after F2, which is deeper
ClosingCase(ps, f1, f2, l) ==
  LET lines == NonBlankLines(ps.text)
      D(r)  == Depth4(lines[ps.heap[r].line])
  IN  /\ f1 < f2 /\ l = f2 + 1
      /\ ps.heap[f1].type = "folder" /\ ps.heap[f2].type = "folder"
      /\ D(f1) = D(f2)
      /\ \A m \in (f1 + 1)..(f2 - 1) : D(m) > D(f1)
      /\ D(l) > D(f2)

IsRootRef(ps, r) == \E i \in 1..Len(ps.result) : ps.result[i] = r

\* C2: same-depth closing rule.  Whenever a Folder line F1 is followed, with
\* only F1's descendants in between, by a Folder line F2 of the same depth
\* and then by a deeper line L, the node of L is a child of F2 and no
\* descendant of F1, and F2 is a sibling of F1 and not a child of F1.
C2_SameDepthClosing ==
  Imported =>
    LET ps == parsedStructure[1]
        R  == 1..Len(ps.heap)
    IN  \A f1 \in R, f2 \in R, l \in R :
          ClosingCase(ps, f1, f2, l) =>
            /\ ParentRefs(ps.heap, l) = {f2}
            /\ ~IsRootRef(ps, l)
            /\ f1 \notin Ancestors(ps.heap, l)
            /\ ParentRefs(ps.heap, f2) = ParentRefs(ps.heap, f1)
            /\ IsRootRef(ps, f2) <=> IsRootRef(ps, f1)
            /\ f1 \notin Ancestors(ps.heap, f2)

C2_Witness ==
  /\ Imported
  /\ \E f1 \in 1..Len(parsedStructure[1].heap), f2 \in 1..Len(parsedStructure[1].heap),
        l \in 1..Len(parsedStructure[1].heap) :
       /\ ClosingCase(parsedStructure[1], f1, f2, l)
       /\ f2 > f1 + 1

\* the stub the claim describes: as DefaultContent, with the .txt suffix
\* (the last four code units) removed from the embedded title
StubWithSuffixRemoved(name) ==
  IF EndsWith(name, <<".", "t", "x", "t">>)
    THEN <<"# Requirements for ">> \o SubSeq(name, 1, Len(name) - 4)
           \o <<"\n# Add your dependencies here">>
    ELSE DefaultContent(name)

\* C3: the content of a parsed File node is the stub selected by its name
\* (py, txt, md, json by extension, else the name Dockerfile, else the
\* generic stub); for a name ending in .txt the title embedded in the stub
\* is the name with the .txt suffix removed; a Folder node has no content.
C3_DefaultContent ==
  Imported =>
    \A n \in NodesOf(parsedStructure[1].forest) :
      /\ n.type = "file" => n.content = Some(StubWithSuffixRemoved(n.name)) /\ n.children = Undefined
      /\ n.type = "folder" => n.content = Undefined /\ n.children # Undefined

(***************************************************************************)
(* Properties of the running application (checked under Spec)              *)
(***************************************************************************)
\* every Folder node of a forest, with the base path it is flattened under
RECURSIVE FolderSites(_, _)
FolderSites(nodes, basePath) ==
  UNION {(IF nodes[i].type = "folder" THEN {[node |-> nodes[i], base |-> basePath]} ELSE {})
           \cup (IF nodes[i].children # Undefined
                   THEN FolderSites(nodes[i].children[1], FullPath(basePath, nodes[i].name))
                   ELSE {})
         : i \in 1..Len(nodes)}

\* C4: in both flatteners a Folder whose children sequence is empty yields
\* exactly one entry, with path <folderPath>/.gitkeep and the empty string
\* as content; a Folder with at least one child yields no entry of its own,
\* only the entries of its descendants.
C4_EmptyFolderSentinel ==
  \A site \in FolderSites(fileTree, <<>>) :
    LET folder   == site.node
        fullPath == FullPath(site.base, folder.name)
        sentinel == [path |-> fullPath \o <<"/">> \o GitKeep, content |-> <<>>]
        github   == convertFileTreeToGitHubFiles(<<folder>>, site.base)
        space    == getFilesForHFUpload(<<folder>>, site.base)
    IN  /\ folder.children # Undefined
        /\ IF Len(folder.children[1]) = 0
             THEN github = <<sentinel>> /\ space = <<sentinel>>
             ELSE /\ github = convertFileTreeToGitHubFiles(folder.children[1], fullPath)
                  /\ space = getFilesForHFUpload(folder.children[1], fullPath)
                  /\ \A i \in 1..Len(github) : github[i].path # sentinel.path
                  /\ \A i \in 1..Len(space) : space[i].path # sentinel.path

C4_Witness ==
  /\ \E site \in FolderSites(fileTree, <<>>) :
       Len(site.node.children[1]) = 0 /\ site.base # <<>>
  /\ \E site \in FolderSites(fileTree, <<>>) : Len(site.node.children[1]) > 0

\* C8: deleting the node whose id is the selected node's id, at any nesting
\* depth, leaves a forest with no node of that id and a null selection.
C8_DeleteSelected ==
  lastEvent.op = "deleteSelected" =>
    /\ selectedFile = Undefined
    /\ \A n \in NodesOf(fileTree) : n.id # lastEvent.id

C8_Witness == lastEvent.op = "deleteSelected" /\ lastEvent.depth > 1

\* C9: every node has exactly one of content / children populated, by its
\* kind: a File has content and no children, a Folder has children and no
\* content.
C9_ContentXorChildren ==
  \A n \in NodesOf(fileTree) :
    /\ n.type = "file" => n.content # Undefined /\ n.children = Undefined
    /\ n.type = "folder" => n.children # Undefined /\ n.content = Undefined

\* C10: no two distinct nodes of the forest have the same id.
C10_UniqueIds ==
  LET all == AllNodes(fileTree)
  IN  \A i \in 1..Len(all), j \in 1..Len(all) : all[i].id = all[j].id => i = j


(***************************************************************************)
(* Properties of the flatteners over the forests of the application        *)
(***************************************************************************)
\* every File node of the forest with the base path it is flattened under
RECURSIVE FileSites(_, _)
FileSites(nodes, basePath) ==
  UNION {(IF nodes[i].type = "file" THEN {[node |-> nodes[i], base |-> basePath]} ELSE {})
           \cup (IF nodes[i].children # Undefined
                   THEN FileSites(nodes[i].children[1], FullPath(basePath, nodes[i].name))
                   ELSE {})
         : i \in 1..Len(nodes)}

Placeholder(file) == <<"// ">> \o file.name \o <<"\n// Auto-generated file">>

\* C11 as stated: for every File node both flatteners emit the node's
\* content verbatim, the empty string included; no placeholder is made.
C11_ContentVerbatim ==
  \A site \in FileSites(fileTree, <<>>) :
    LET file  == site.node
        entry == [path |-> FullPath(site.base, file.name), content |-> file.content[1]]
    IN  /\ convertFileTreeToGitHubFiles(<<file>>, site.base) = <<entry>>
        /\ getFilesForHFUpload(<<file>>, site.base) = <<entry>>

\* C11 amended: for every File node both flatteners emit the node's content
\* verbatim when it is not empty, and the placeholder naming the file when
\* the content is the empty string; the Space list of the whole forest
\* holds that entry.
C11_ContentOrPlaceholder ==
  \A site \in FileSites(fileTree, <<>>) :
    LET file  == site.node
        entry == [path    |-> FullPath(site.base, file.name),
                  content |-> IF file.content[1] # <<>> THEN file.content[1]
                              ELSE Placeholder(file)]
        space == getFilesForHFUpload(fileTree, <<>>)
    IN  /\ file.content # Undefined
        /\ convertFileTreeToGitHubFiles(<<file>>, site.base) = <<entry>>
        /\ getFilesForHFUpload(<<file>>, site.base) = <<entry>>
        /\ \E i \in 1..Len(space) : space[i] = entry

C11_Witness ==
  /\ \E site \in FileSites(fileTree, <<>>) : site.node.content = Some(<<>>)
  /\ \E site \in FileSites(fileTree, <<>>) :
       site.node.content = Some(<<"x">>) /\ site.base # <<>>

\* C12: no path emitted by either flattener begins with '/', and the path
\* of a root-level File node is exactly its bare name.
C12_NoLeadingSlash ==
  LET github == convertFileTreeToGitHubFiles(fileTree, <<>>)
      space  == getFilesForHFUpload(fileTree, <<>>)
  IN  /\ \A i \in 1..Len(github) : ~StartsWith(github[i].path, <<"/">>)
      /\ \A i \in 1..Len(space) : ~StartsWith(space[i].path, <<"/">>)
      /\ \A i \in 1..Len(fileTree) :
           fileTree[i].type = "file" =>
             /\ convertFileTreeToGitHubFiles(<<fileTree[i]>>, <<>>)[1].path = fileTree[i].name
             /\ getFilesForHFUpload(<<fileTree[i]>>, <<>>)[1].path = fileTree[i].name

(***************************************************************************)
(* Properties of the Space upload retry loop (checked under SpecPublish)   *)
(***************************************************************************)
\* a run of uploadWithRetry is in progress or has ended the publish
InUpload == hf.pc \in {"put", "sleep"} \/ (hf.pc \in {"failed", "done"} /\ hf.attempts >= 1)

\* uploadWithRetry gave up on a file: it threw after a response, not a rejected fetch
GaveUp == hf.pc = "failed" /\ hf.attempts >= 1 /\ hf.res # Undefined

LastStatus == hf.res[1].status

CurrentFile == hf.hfFiles[hf.i]

\* needle occurs in hay as a contiguous run of elements
Contains(hay, needle) ==
  \E k \in 0..(Len(hay) - Len(needle)) : SubSeq(hay, k + 1, k + Len(needle)) = needle

\* C5: a file whose every attempt is answered 404 gets exactly tries (10)
\* attempts and then the publish stops with an error; a sleep happens only
\* between two consecutive attempts, the first delay is the base (2000 ms),
\* the delays never decrease and none exceeds the cap (5000 ms).
C5_BoundedRetry ==
  InUpload =>
    /\ hf.attempts <= tries
    /\ hf.attempts = hf.t + 1
    /\ Len(hf.sleeps) = (IF hf.pc = "sleep" THEN hf.attempts ELSE hf.attempts - 1)
    /\ hf.pc = "sleep" => (hf.attempts < tries /\ LastStatus = 404)
    /\ hf.sleeps # <<>> => hf.sleeps[1] = Ms(BaseDelayMs)
    /\ \A k \in 2..Len(hf.sleeps) : hf.sleeps[k] >= hf.sleeps[k - 1]
    /\ \A k \in 1..Len(hf.sleeps) : hf.sleeps[k] <= Ms(MaxDelayMs)
    /\ (GaveUp /\ LastStatus = 404) =>
         /\ hf.attempts = tries
         /\ Len(hf.sleeps) = tries - 1
         /\ hf.error # Undefined
         /\ ~isCreatingSpace

C5_Witness ==
  /\ GaveUp
  /\ LastStatus = 404
  /\ hf.attempts = tries
  /\ hf.sleeps[2] > hf.sleeps[1]
  /\ hf.sleeps[tries - 1] = Ms(MaxDelayMs)

RemoteError ==
  IF hf.res[1].body.kind = "object" /\ hf.res[1].body.error # Undefined
    THEN hf.res[1].body.error[1] ELSE <<>>

C7_Only404Retried ==
  [][ (hf.pc = "put" /\ hf' # hf) =>
        /\ hf'.pc \in {"sleep", "failed", "done", "put"}
        /\ hf'.pc = "sleep" =>
             /\ hf'.res[1].status = 404
             /\ hf'.i = hf.i /\ hf'.attempts = hf.attempts
        /\ hf'.pc = "failed" =>
             /\ hf'.i = hf.i /\ hf'.attempts = hf.attempts /\ hf'.sleeps = hf.sleeps
             /\ ~isCreatingSpace'
        /\ hf'.pc = "done" =>
             /\ Ok(hf'.res[1].status)
             /\ hf'.i = hf.i /\ hf'.attempts = hf.attempts /\ hf'.sleeps = hf.sleeps
        /\ hf'.pc = "put" => (hf'.i = hf.i + 1 /\ hf'.attempts = 1 /\ hf'.sleeps = <<>>)
        /\ (hf'.res # Undefined /\ ~Ok(hf'.res[1].status) /\ hf'.res[1].status # 404) =>
             hf'.pc = "failed"
        /\ (hf'.res # Undefined /\ Ok(hf'.res[1].status)) => hf'.pc = "done"
    ]_vars

C7_Witness ==
  /\ GaveUp
  /\ LastStatus = 500
  /\ hf.attempts = 3
  /\ Len(hf.sleeps) = 2
  /\ hf.i = 2


(***************************************************************************)
(* Properties of the publish runs of both targets (checked under           *)
(* SpecExport, where the tokens, the names and the project do not change)  *)
(***************************************************************************)
SpaceInputInvalid ==
  huggingfaceToken = <<>> \/ Len(fileTree) = 0 \/ Trim(hfForm.spaceName) = <<>>

RepoInputInvalid ==
  githubToken = <<>> \/ Len(fileTree) = 0 \/ Trim(githubForm.repoName) = <<>>

SpaceReason ==
  IF huggingfaceToken = <<>> THEN "Hugging Face Token Required"
  ELSE IF Len(fileTree) = 0 THEN "No Files to Export"
  ELSE "Space Name Required"

RepoReason ==
  IF githubToken = <<>> THEN "GitHub Token Required"
  ELSE IF Len(fileTree) = 0 THEN "No Files to Export"
  ELSE "Repository Name Required"

\* C13: a publish whose validation fails (token missing, forest empty, name
\* blank after trimming) ends Rejected: no remote request is issued, the
\* in-progress flag is never set, and the reason shown is that of the check
\* that failed.
C13_ValidationRejects ==
  /\ SpaceInputInvalid =>
       /\ hf.pc \in {"idle", "rejected"}
       /\ ~isCreatingSpace
  /\ hf.pc = "rejected" =>
       /\ SpaceInputInvalid
       /\ hf.error = Some(SpaceReason)
       /\ hf.calls = {} /\ hf.outstanding = 0 /\ hf.attempts = 0
       /\ ~isCreatingSpace
  /\ RepoInputInvalid =>
       /\ gh.pc \in {"idle", "rejected"}
       /\ ~isCreatingRepo
  /\ gh.pc = "rejected" =>
       /\ RepoInputInvalid
       /\ gh.error = Some(RepoReason)
       /\ gh.calls = {} /\ gh.outstanding = 0 /\ gh.issued = <<>>
       /\ ~isCreatingRepo

C13_Witness ==
  /\ hf.pc = "rejected" /\ hf.error = Some("Space Name Required")
  /\ gh.pc = "rejected" /\ gh.error = Some("Repository Name Required")
  /\ toast = RepoNameRequiredToast

\* C14: within a run the requests are sequential and ordered: at most one
\* request is outstanding, the Space run sends whoami before create, and
\* either run sends a file write only after its own create call was
\* answered 2xx; a run whose create call failed ends Failed with no write.
C14_OrderedRequests ==
  /\ hf.outstanding = (IF hf.pc \in {"whoami", "create", "put"} THEN 1 ELSE 0)
  /\ gh.outstanding = (IF gh.pc \in {"create", "put"} THEN 1 ELSE 0)
  /\ "create" \in hf.calls => "whoami" \in hf.calls
  /\ "put" \in hf.calls => ("create" \in hf.calls /\ hf.created)
  /\ hf.attempts >= 1 => "put" \in hf.calls
  /\ "put" \in gh.calls => ("create" \in gh.calls /\ gh.created)
  /\ gh.issued # <<>> => "put" \in gh.calls
  /\ (hf.pc \in {"put", "sleep", "done", "failed"} /\ ~hf.created) =>
       (hf.pc = "failed" /\ "put" \notin hf.calls /\ hf.attempts = 0)
  /\ (gh.pc \in {"put", "done", "failed"} /\ ~gh.created) =>
       (gh.pc = "failed" /\ "put" \notin gh.calls /\ gh.issued = <<>>)

C14_Witness ==
  /\ hf.pc = "failed" /\ hf.calls = {"whoami", "create"} /\ ~hf.created
  /\ gh.pc = "failed" /\ gh.calls = {"create"} /\ ~gh.created


Paths(files) == [k \in 1..Len(files) |-> files[k].path]

Range(seq) == {seq[k] : k \in 1..Len(seq)}

\* C15: in the repository target, once the create call succeeded, exactly
\* one write request is sent for every entry of the flattened map, whatever
\* the outcome of the writes before it, and the run ends Done.
C15_OneWritePerEntry ==
  /\ (gh.pc \in {"done", "failed"} /\ gh.created) => gh.pc = "done"
  /\ gh.pc = "done" => gh.issued = Paths(gh.files)
  /\ gh.pc = "put" => gh.issued = SubSeq(Paths(gh.files), 1, gh.i)

\* C16: in the repository target, a write answered with a status that is
\* not 2xx is logged for its path, and the writes after it are still sent.
C16_RefusedWriteLogged ==
  /\ Range(gh.refused) \subseteq Range(gh.warned)
  /\ gh.pc = "done" =>
       \A k \in 1..Len(gh.files) :
         gh.files[k].path \in Range(gh.refused) =>
           \A j \in (k + 1)..Len(gh.files) :
             gh.files[j].path \in Range(gh.issued) \cup Range(gh.warned)

\* C17: the Space run ends Done exactly when every entry of the upload list
\* was answered 2xx; when an entry fails (a status other than 2xx that is
\* not retried, or a rejected fetch) the run ends Failed and no write is
\* sent for a later entry.
C17_DoneIffAllUploaded ==
  /\ hf.pc = "done" =>
       /\ hf.created /\ hf.hfFiles # <<>>
       /\ hf.uploaded = Paths(hf.hfFiles)
  /\ (hf.pc \in {"put", "sleep", "failed"} /\ hf.attempts >= 1) =>
       /\ hf.i \in 1..Len(hf.hfFiles)
       /\ hf.uploaded = SubSeq(Paths(hf.hfFiles), 1, hf.i - 1)
  /\ (hf.created /\ hf.uploaded = Paths(hf.hfFiles)) => hf.pc = "done"
  /\ (hf.pc = "failed" /\ hf.attempts >= 1) =>
       /\ hf.res = Undefined \/ hf.res[1].status \notin 200..299
       /\ hf.res # Undefined =>
            (hf.res[1].status # 404 \/ hf.attempts = tries)
       /\ ~isCreatingSpace

C17_Witness ==
  /\ hf.pc = "failed"
  /\ hf.i = 2 /\ Len(hf.hfFiles) >= 3
  /\ hf.res # Undefined /\ hf.res[1].status = 500
  /\ gh.pc = "done"


Ended == {"done", "failed", "rejected"}

\* C18: Done, Failed and Rejected are terminal: a run that has reported one
\* of them has no request outstanding and sends none; the only step that
\* changes its frame is a new call, which validates again and starts with
\* nothing but its first request (whoami for a Space, create for a
\* repository); an upload loop is entered only from the create call of the
\* same run.
C18_TerminalRuns ==
  [][ /\ hf.pc \in Ended => hf.outstanding = 0
      /\ gh.pc \in Ended => gh.outstanding = 0
      /\ (hf.pc \in Ended /\ hf' # hf) =>
           \/ hf'.pc = "rejected" /\ hf'.calls = {} /\ SpaceInputInvalid
           \/ /\ hf'.pc = "whoami" /\ hf'.calls = {"whoami"} /\ ~SpaceInputInvalid
              /\ ~hf'.created /\ hf'.hfFiles = <<>> /\ hf'.uploaded = <<>>
              /\ hf'.attempts = 0 /\ hf'.i = 0
      /\ (gh.pc \in Ended /\ gh' # gh) =>
           \/ gh'.pc = "rejected" /\ gh'.calls = {} /\ RepoInputInvalid
           \/ /\ gh'.pc = "create" /\ gh'.calls = {"create"} /\ ~RepoInputInvalid
              /\ ~gh'.created /\ gh'.files = <<>> /\ gh'.issued = <<>> /\ gh'.i = 0
      /\ (hf'.pc = "put" /\ hf.pc \notin {"put", "sleep"}) => hf.pc = "create"
      /\ (gh'.pc = "put" /\ gh.pc # "put") => gh.pc = "create"
    ]_vars

C18_Witness ==
  /\ hf.pc = "put"
  /\ toast # Undefined /\ toast[1].title = "Space Creation Failed"
  /\ gh.pc = "done"


SpaceRunning == hf.pc \in {"whoami", "create", "put", "sleep"}

RepoRunning == gh.pc \in {"create", "put"}

\* the toast is a title with a message, the title one of titles
Outcome(t, titles) ==
  t # Undefined /\ t[1].title \in titles /\ t[1].description # <<>>

\* C19: provided every request returns or throws, a run that passed
\* validation ends; the step that ends it shows one toast, a success or a
\* failure title with a message, and leaves the in-progress flag false; the
\* steps before it show none, and the flag is true exactly while the run
\* lasts.
C19_RunEndsWithOneOutcome ==
  /\ [][ /\ isCreatingSpace <=> SpaceRunning
         /\ isCreatingRepo <=> RepoRunning
         /\ (SpaceRunning /\ hf' # hf) =>
              IF hf'.pc \in {"done", "failed"}
                THEN /\ ~isCreatingSpace'
                     /\ Outcome(toast', {IF hf'.pc = "done" THEN "Space Created & Files Synced!"
                                         ELSE "Space Creation Failed"})
                     /\ hf'.pc = "failed" => toast'[1].description = hf'.error[1]
                ELSE /\ hf'.pc \in {"whoami", "create", "put", "sleep"}
                     /\ toast' = toast /\ isCreatingSpace'
         /\ (RepoRunning /\ gh' # gh) =>
              IF gh'.pc \in {"done", "failed"}
                THEN /\ ~isCreatingRepo'
                     /\ Outcome(toast', {IF gh'.pc = "done" THEN "Repository Created Successfully"
                                         ELSE "GitHub Creation Failed"})
                     /\ gh'.pc = "failed" => toast'[1].description = gh'.error[1]
                ELSE /\ gh'.pc \in {"create", "put"}
                     /\ toast' = toast /\ isCreatingRepo'
       ]_vars
  /\ SpaceRunning ~> (hf.pc \in {"done", "failed"} /\ ~isCreatingSpace)
  /\ RepoRunning ~> (gh.pc \in {"done", "failed"} /\ ~isCreatingRepo)

C19_Witness ==
  /\ hf.pc = "failed" /\ hf.attempts = tries /\ ~isCreatingSpace
  /\ gh.pc = "done" /\ gh.refused # <<>> /\ ~isCreatingRepo
  /\ toast = FailureToast(hf.error[1])


(***************************************************************************)
(* Properties of the upload list of a Space (checked under SpecPublish)    *)
(***************************************************************************)
\* C20: for the SDK kinds gradio and streamlit the upload list holds an
\* entry whose path is app.py, the stub being appended exactly when the
\* descriptor and the flattened forest hold none; for static the list is
\* the descriptor and the flattened forest unchanged.
C20_EntryPointPresent ==
  hf.hfFiles # <<>> =>
    LET flat == <<ReadmeMd>> \o Paths(getFilesForHFUpload(hf.fileTree, <<>>))
        list == Paths(hf.hfFiles)
    IN  IF hf.form.sdk \in {"gradio", "streamlit"}
          THEN /\ AppPy \in Range(list)
               /\ list = (IF AppPy \in Range(flat) THEN flat ELSE Append(flat, AppPy))
          ELSE list = flat

(***************************************************************************)
(* Frame effects of deleteItem and updateFileContent (SpecEdit)            *)
(***************************************************************************)
\* a node without its subtree; an empty children list marks a node that has one
Stripped(node) ==
  [node EXCEPT !.children = IF node.children # Undefined THEN Some(<<>>) ELSE Undefined]

\* the forest as the pre-order list of its nodes with their nesting depth
RECURSIVE Flatten(_, _)
Flatten(nodes, d) ==
  IF nodes = <<>> THEN <<>>
  ELSE <<[node |-> Stripped(Head(nodes)), depth |-> d]>>
       \o (IF Head(nodes).children # Undefined
             THEN Flatten(Head(nodes).children[1], d + 1) ELSE <<>>)
       \o Flatten(Tail(nodes), d)

\* one pass over the pre-order list: a row with the id is struck out together
\* with the deeper rows that follow it (cut is the depth of the row struck
\* last, 0 when the pass is outside a struck subtree)
RECURSIVE Strike(_, _, _)
Strike(rows, id, cut) ==
  IF rows = <<>> THEN <<>>
  ELSE LET r == Head(rows)
       IN  IF cut > 0 /\ r.depth > cut THEN Strike(Tail(rows), id, cut)
           ELSE IF r.node.id = id THEN Strike(Tail(rows), id, r.depth)
           ELSE <<r>> \o Strike(Tail(rows), id, 0)

AbsentId == <<0, 0>>

\* C21: deleteItem(id) removes exactly the nodes with that id and their
\* descendants, at every level; every other node is kept with its fields, its
\* nesting and its place among the kept nodes; a forest without the id is
\* returned unchanged.
C21_DeleteFrame ==
  /\ lastEvent.op = "deleteItem" =>
       Flatten(fileTree, 1) = Strike(Flatten(lastEvent.before, 1), lastEvent.id, 0)
  /\ filterNodes(fileTree, AbsentId) = fileTree

\* a folder was deleted with what it held, and other nodes were kept
C21_Witness ==
  /\ lastEvent.op = "deleteItem"
  /\ fileTree # <<>>
  /\ Len(Flatten(fileTree, 1)) + 2 <= Len(Flatten(lastEvent.before, 1))

\* C22: updateFileContent(id, c) changes nothing but the content of the File
\* node with the matching id: every node keeps its place, id, name, kind and
\* parent, a node that is not a File with that id keeps its content (so no
\* Folder acquires one), and a forest without the id is unchanged.
C22_UpdateFrame ==
  lastEvent.op = "updateFileContent" =>
    LET old == Flatten(lastEvent.before, 1)
        new == Flatten(fileTree, 1)
    IN  /\ Len(new) = Len(old)
        /\ \A i \in 1..Len(old) :
             /\ new[i].depth = old[i].depth
             /\ [new[i].node EXCEPT !.content = Undefined]
                  = [old[i].node EXCEPT !.content = Undefined]
             /\ new[i].node.content =
                  IF old[i].node.id = lastEvent.id /\ old[i].node.type = "file"
                    THEN Some(lastEvent.content) ELSE old[i].node.content

(***************************************************************************)
(* A publish and the user events interleaved with it (SpecBusy)            *)
(***************************************************************************)
\* the step is a user event on the project or on a form
UserStep ==
  \/ fileTree' # fileTree
  \/ selectedFile' # selectedFile
  \/ structureText' # structureText
  \/ hfForm' # hfForm
  \/ (isHFDialogOpen /\ ~isHFDialogOpen' /\ hf'.pc # "done")
  \/ (isGitHubDialogOpen /\ ~isGitHubDialogOpen' /\ gh'.pc # "done")

\* the upload list of the Space run has been gathered
SpaceGathered == hf.hfFiles # <<>>

\* C23: a publish run that has started is neither cancelled nor changed by
\* the user events interleaved with it: a user event leaves both runs as
\* they are, a run starts with the forest, token and form of the moment of
\* the click and keeps them to its end, the entries it uploads are the
\* flattening of that forest under that form, in order, and the descriptor
\* embeds the serialization of that same forest.
C23_RunKeepsItsInputs ==
  /\ [][ /\ UserStep => (hf' = hf /\ gh' = gh)
         /\ (~SpaceRunning /\ hf'.pc = "whoami") =>
              (hf'.fileTree = fileTree /\ hf'.form = hfForm /\ hf'.token = huggingfaceToken)
         /\ (~RepoRunning /\ gh'.pc = "create") =>
              (gh'.fileTree = fileTree /\ gh'.form = githubForm /\ gh'.token = githubToken)
         /\ SpaceRunning =>
              (hf'.fileTree = hf.fileTree /\ hf'.form = hf.form /\ hf'.token = hf.token)
         /\ RepoRunning =>
              (gh'.fileTree = gh.fileTree /\ gh'.form = gh.form /\ gh'.token = gh.token)
         /\ (SpaceRunning /\ SpaceGathered) => hf'.hfFiles = hf.hfFiles
         /\ gh.pc = "put" => gh'.files = gh.files ]_vars
  /\ [](SpaceGathered =>
          /\ hf.hfFiles = HFFiles(hf.form, hf.fileTree)
          /\ hf.hfFiles[1].path = ReadmeMd
          /\ Contains(hf.hfFiles[1].content, JsonStringify(hf.fileTree))
          /\ hf.uploaded = SubSeq(Paths(hf.hfFiles), 1, Len(hf.uploaded)))
  /\ [](gh.pc \in {"put", "done"} =>
          /\ gh.files = convertFileTreeToGitHubFiles(gh.fileTree, <<>>)
          /\ Range(gh.issued) \subseteq Range(Paths(gh.files))
          /\ gh.pc = "put" => gh.issued[Len(gh.issued)] = gh.files[gh.i].path)

\* a Space run ended Done after the user changed the forest and the form
\* and closed the dialog while it was uploading
C23_Witness ==
  /\ hf.pc = "done"
  /\ hf.fileTree # fileTree
  /\ hf.form # hfForm
  /\ Len(hf.uploaded) = Len(hf.hfFiles)

(***************************************************************************)
(* The root-label test and the depth of a line (SpecParse)                 *)
(***************************************************************************)
\* the indices of the lines, among the non-blank ones, that created a node
CreatingLines == {parsedStructure[1].heap[r].line : r \in 1..Len(parsedStructure[1].heap)}

\* a line that contains '/' and begins with neither a space nor a glyph
IsDecorativeLabel(line) ==
  Includes(line, "/") /\ line[1] # " " /\ ~IsGlyph(line[1])

\* C24: a non-blank line is discarded as a root label exactly when it
\* contains '/' and begins with neither a space nor one of the four
\* box-drawing glyphs; every other non-blank line with a non-empty cleaned
\* name creates a node, a folder line whose prefix starts with the vertical
\* bar included.
C24_RootLabelTest ==
  Imported =>
    LET lines == NonBlankLines(parsedStructure[1].text)
    IN  \A k \in 1..Len(lines) :
          k \in CreatingLines <=>
            (~IsDecorativeLabel(lines[k]) /\ NodeName(lines[k]) # <<>>)

\* C25: the depth of a line is the integer quotient by 4 of the original
\* length minus the length of the cleaned, trimmed text, so a line that
\* follows a Folder line of the same quotient becomes the sibling of that
\* Folder, not its child.
C25_IntegerDepth ==
  Imported =>
    LET heap  == parsedStructure[1].heap
        lines == NonBlankLines(parsedStructure[1].text)
    IN  \A q \in 2..Len(heap) :
          LET p == q - 1
          IN  (/\ heap[p].type = "folder"
               /\ Depth4(lines[heap[p].line]) \div 4 = Depth4(lines[heap[q].line]) \div 4)
              => (p \notin ParentRefs(heap, q) /\ ParentRefs(heap, q) = ParentRefs(heap, p))

(***************************************************************************)
(* Linkage of parents and children                                         *)
(***************************************************************************)
\* every node of nodes carries parentId in its parent field (none for a
\* root), only folders have a children array, and so on below
RECURSIVE Linked(_, _)
Linked(nodes, parentId) ==
  \A i \in 1..Len(nodes) :
    /\ nodes[i].parent = parentId
    /\ nodes[i].type # "folder" => nodes[i].children = Undefined
    /\ nodes[i].children # Undefined => Linked(nodes[i].children[1], Some(nodes[i].id))

\* C26: in every forest reached from the initial tree by addNewItem, import
\* (the forest parseStructure returns), deleteItem and updateFileContent,
\* every node in the children of a Folder carries the id of that Folder as
\* its parent, every root has no parent field, and only Folder nodes have
\* children.
C26_Linkage == Linked(fileTree, Undefined)

\* the forest holds an imported folder with a File child followed by the
\* node of a deeper line, and the root made by a deeper line after a root File
C26_Witness ==
  /\ \E node \in NodesOf(fileTree) :
       /\ node.name = <<"d">>
       /\ node.children # Undefined
       /\ Len(node.children[1]) = 2
       /\ node.children[1][1].type = "file"
       /\ node.children[1][2].name = <<"g">>
  /\ \E i \in 1..Len(fileTree) : fileTree[i].name = <<"g">>

(***************************************************************************)
(* The nodes of the returned forest and the lines (SpecParse)              *)
(***************************************************************************)
\* the references met by a depth-first pre-order walk from refs
RECURSIVE PreOrderRefs(_, _)
PreOrderRefs(heap, refs) ==
  IF refs = <<>> THEN <<>>
  ELSE <<Head(refs)>>
       \o (IF heap[Head(refs)].children # Undefined
             THEN PreOrderRefs(heap, heap[Head(refs)].children[1]) ELSE <<>>)
       \o PreOrderRefs(heap, Tail(refs))

\* the lines that pass the loop head and have a name, in line order
KeptLines(lines) ==
  SelectSeq([k \in 1..Len(lines) |-> k],
            LAMBDA k : ~IsRootLabel(lines[k]) /\ NodeName(lines[k]) # <<>>)

\* C27: the depth-first pre-order walk of the forest parseStructure returns
\* meets exactly the nodes created from the lines that are not skipped, each
\* once and in line order: no node is dropped and none is attached twice.
C27_PreOrderIsLineOrder ==
  Imported =>
    LET heap  == parsedStructure[1].heap
        walk  == PreOrderRefs(heap, parsedStructure[1].result)
        lines == NonBlankLines(parsedStructure[1].text)
    IN  /\ [i \in 1..Len(walk) |-> heap[walk[i]].line] = KeptLines(lines)
        /\ [i \in 1..Len(walk) |-> heap[walk[i]].name] =
             [i \in 1..Len(KeptLines(lines)) |-> NodeName(lines[KeptLines(lines)[i]])]
        /\ Len(AllNodes(parsedStructure[1].forest)) = Len(KeptLines(lines))

\* a listing of MaxLines lines with a skipped line, a nested node and a
\* node that closes the nesting
C27_Witness ==
  /\ Imported
  /\ Len(NonBlankLines(parsedStructure[1].text)) = MaxLines
  /\ Len(parsedStructure[1].heap) = MaxLines - 1
  /\ Len(parsedStructure[1].result) = 2

(***************************************************************************)
(* The selection (Spec)                                                    *)
(***************************************************************************)
\* C28: the selected file is null or a File node whose id is present in the
\* current forest, so that an edit is never applied to a node that is no
\* longer in the forest.
C28_SelectionInForest ==
  selectedFile # Undefined =>
    \E node \in NodesOf(fileTree) :
      node.id = selectedFile[1].id /\ node.type = "file"

(***************************************************************************)
(* The two flatteners side by side (Spec)                                  *)
(***************************************************************************)
\* how many entries of list equal entry
Occurrences(list, entry) == Cardinality({i \in 1..Len(list) : list[i] = entry})

\* the File nodes and the Folder nodes without children, as positions in the
\* pre-order list
EntryNodes(nodes) ==
  {i \in 1..Len(AllNodes(nodes)) :
     \/ AllNodes(nodes)[i].type = "file"
     \/ AllNodes(nodes)[i].type = "folder" /\ AllNodes(nodes)[i].children = Some(<<>>)}

\* C29: for every reachable forest the two flatteners produce the same
\* collection of (path, content) entries, one per File node and one per
\* empty Folder, so that no File node is lost, two siblings of the same
\* name included.
C29_SameEntries ==
  LET github == convertFileTreeToGitHubFiles(fileTree, <<>>)
      space  == getFilesForHFUpload(fileTree, <<>>)
  IN  /\ \A entry \in Range(github) \cup Range(space) :
           Occurrences(github, entry) = Occurrences(space, entry)
      /\ Len(github) = Cardinality(EntryNodes(fileTree))
      /\ Len(space) = Cardinality(EntryNodes(fileTree))

(***************************************************************************)
(* The paths of a Space upload (SpecPublish)                               *)
(***************************************************************************)
\* the content the Space holds at path once every write of the list has
\* been accepted in order: that of the last entry with the path
RemoteContent(files, path) ==
  LET writes == {k \in 1..Len(files) : files[k].path = path}
  IN  files[CHOOSE k \in writes : \A j \in writes : j <= k].content

\* C30: the list of entries uploaded to a Space has no two entries with the
\* same path; the synthesized descriptor is the only write to README.md, and
\* after a successful publish the remote README.md holds the descriptor.
C30_DescriptorOnly ==
  /\ SpaceGathered =>
       \A i, j \in 1..Len(hf.hfFiles) : hf.hfFiles[i].path = hf.hfFiles[j].path => i = j
  /\ hf.pc = "done" =>
       /\ hf.uploaded = Paths(hf.hfFiles)
       /\ RemoteContent(hf.hfFiles, ReadmeMd) = readmeContent(hf.form, hf.fileTree)

====
